---- MODULE Spec2Model ----
(***************************************************************************)
(* Simplified masternode list (SML) / LLMQ engine of rust-dashcore:        *)
(* MasternodeListEngine and the pure functions it is built from.           *)
(*                                                                         *)
(* Conventions                                                             *)
(*   Option<T>          None == << >>, Some(v) == <<v>>                    *)
(*   BTreeMap<K, V>     a function whose DOMAIN is the key set             *)
(*   Result<T, E>       [ok |-> BOOLEAN, err |-> error name, ...]          *)
(*   32-byte hashes     block / quorum hashes are small naturals;          *)
(*                      ProTxHash and score hashes are two-digit numbers   *)
(*                      in base 4 (two "bytes"), so that byte reversal is  *)
(*                      a real permutation                                 *)
(*   sha256 / sha256d   ideal hashes: injective tagged tuples, or a fixed  *)
(*                      arithmetic mix where an order on digests is needed *)
(*   u32                the integer of -2^31 .. 2^31 - 1 congruent to it   *)
(*                      modulo 2^32: u32::MAX is -1, a wrapped difference  *)
(*                      is negative, and the unsigned order is LessU32     *)
(*   BLS                ideal signatures: a signature records the keys and *)
(*                      the message it was made for                        *)
(***************************************************************************)
EXTENDS Integers, Sequences, FiniteSets, TLC

VARIABLES block_hashes, block_heights, masternode_lists, known_chain_locks,
          known_snapshots, last_commitment_entries, network, ops, last

vars == <<block_hashes, block_heights, masternode_lists, known_chain_locks,
          known_snapshots, last_commitment_entries, network, ops, last>>

engine_vars == <<block_hashes, block_heights, masternode_lists, known_chain_locks,
                 known_snapshots, last_commitment_entries, network>>

\* Number of engine operations explored after construction.
MaxOps == 2

----------------------------------------------------------------------------
(* Generic helpers *)

\* F(x) for x the value of v: the binding of a local in the code.
Let1(v, F(_)) == CHOOSE out \in {F(x) : x \in {v}} : TRUE

None == << >>

Some(v) == <<v>>

IsSome(o) == Len(o) = 1

Unwrap(o) == o[1]

Range(s) == {s[i] : i \in DOMAIN s}

\* The least element of a finite non-empty set of integers.
Min(S) == CHOOSE x \in S : \A y \in S : x <= y

EmptyMap == << >>

HasKey(m, k) == k \in DOMAIN m

\* BTreeMap::get
MapGet(m, k) == IF k \in DOMAIN m THEN Some(m[k]) ELSE None

\* BTreeMap::insert (insert or replace)
MapPut(m, k, v) == [x \in (DOMAIN m) \cup {k} |-> IF x = k THEN v ELSE m[x]]

\* BTreeMap::remove
MapRemove(m, k) == [x \in (DOMAIN m) \ {k} |-> m[x]]

\* The elements of a finite set of integers in ascending order.
RECURSIVE SortedSeq(_)
SortedSeq(S) ==
    IF S = {} THEN << >>
    ELSE LET m == CHOOSE x \in S : \A y \in S : x <= y
         IN  <<m>> \o SortedSeq(S \ {m})

\* Number of TRUE bits of a bitset.
RECURSIVE PopCount(_)
PopCount(bits) ==
    IF bits = << >> THEN 0
    ELSE (IF Head(bits) THEN 1 ELSE 0) + PopCount(Tail(bits))

\* u32 subtraction as the release build computes it (wrapping).
SubU32(a, b) == a - b

\* u32 addition, wrapping.
AddU32(a, b) == a + b

\* The order of u32.
LessU32(a, b) == IF (a < 0) = (b < 0) THEN a < b ELSE b < 0

\* The elements of a finite set of u32 in ascending order.
RECURSIVE SortedU32(_)
SortedU32(S) ==
    IF S = {} THEN << >>
    ELSE LET m == CHOOSE x \in S : \A y \in S : x = y \/ LessU32(x, y)
         IN  <<m>> \o SortedU32(S \ {m})

\* u32::saturating_sub
SaturatingSub(a, b) == IF LessU32(a, b) THEN 0 ELSE a - b

\* i16 as u32: sign extension of a negative index.
I16AsU32(i) == i

\* Byte reversal of a two-byte hash (bytes are base-4 digits).
Reverse(h) == (h % 4) * 4 + (h \div 4)

----------------------------------------------------------------------------
(* Network and LLMQ parameters *)

Networks == {"Dash", "Regtest"}

\* Network::known_genesis_block_hash (hash 0 is the genesis block of the
\* networks that define one)
known_genesis_block_hash(net) == IF net = "Dash" THEN Some(0) ELSE None

\* Height from which Core v20 is active.
V20Height(net) == IF net = "Dash" THEN 90 ELSE 50

\* Network::core_v20_is_active_at
core_v20_is_active_at(net, height) == height >= V20Height(net)

\* Network::platform_type
platform_type(net) == IF net = "Dash" THEN "Llmqtype100_67" ELSE "LlmqtypeTest"

LLMQTypes == {"LlmqtypeTest", "LlmqtypeTestInstantSend", "LlmqtypeTestDIP0024"}

\* LLMQType as u8
TypeCode(t) ==
    CASE t = "LlmqtypeTest" -> 100
      [] t = "LlmqtypeTestDIP0024" -> 103
      [] t = "LlmqtypeTestInstantSend" -> 104
      [] OTHER -> 0

\* LLMQType::is_rotating_quorum_type
is_rotating_quorum_type(t) == t = "LlmqtypeTestDIP0024"

\* LLMQType::size
size(t) == IF t = "LlmqtypeTestDIP0024" THEN 4 ELSE 3

\* LLMQType::threshold
threshold(t) == 2

\* LLMQParams::dkg_params.interval
interval(t) == 24

\* LLMQParams::signing_active_quorum_count
signing_active_quorum_count(t) == 2

----------------------------------------------------------------------------
(* Masternode list entries *)

\* An operator key: the G1 point and the serialization scheme of its bytes.
OperatorKey(point, scheme) == [point |-> point, scheme |-> scheme]

\* MasternodeListEntry (service address and voting key take no part in any
\* decision of the engine and are left out).
MasternodeListEntry(version, hash, confirmed, key, valid, mn_type) ==
    [version |-> version, pro_reg_tx_hash |-> hash, confirmed_hash |-> confirmed,
     operator_public_key |-> key, is_valid |-> valid, mn_type |-> mn_type]

\* MasternodeListEntry::use_legacy_bls_keys
use_legacy_bls_keys(entry) == entry.version = 1

\* MasternodeListEntry::calculate_entry_hash: sha256d of the encoding, as a
\* fixed arithmetic mix of the encoded fields.
MnEntryHash(entry) ==
    (entry.pro_reg_tx_hash * 7 + entry.version * 3 + entry.operator_public_key.point * 5
       + (IF entry.is_valid THEN 1 ELSE 0)
       + (IF IsSome(entry.confirmed_hash) THEN 2 ELSE 0)
       + (IF entry.mn_type = "HighPerformance" THEN 4 ELSE 0)) % 64

\* impl From<MasternodeListEntry> for QualifiedMasternodeListEntry
QualifiedMasternodeListEntry(entry) ==
    [masternode_list_entry |-> entry,
     entry_hash |-> MnEntryHash(entry),
     confirmed_hash_hashed_with_pro_reg_tx |->
        IF IsSome(entry.confirmed_hash)
        THEN Some((entry.pro_reg_tx_hash * 3 + Unwrap(entry.confirmed_hash)) % 16)
        ELSE None]

----------------------------------------------------------------------------
(* Quorum entries *)

ZeroSig == [tag |-> "zero", keys |-> << >>, pk |-> 0, msg |-> << >>]

\* Bytes that are no G2 element.
GarbageSig == [tag |-> "garbage", keys |-> << >>, pk |-> 0, msg |-> << >>]

\* An aggregated (secure) signature of msg by the keys, given in ascending order.
AggSig(keys, msg) == [tag |-> "agg", keys |-> keys, pk |-> 0, msg |-> msg]

\* A threshold signature of msg under the quorum public key pk.
ThresholdSig(pk, msg) == [tag |-> "sig", keys |-> << >>, pk |-> pk, msg |-> msg]

\* BLSPublicKey::is_zeroed / BLSSignature::is_zeroed
is_zeroed_key(pk) == pk = 0

is_zeroed_sig(sig) == sig.tag = "zero"

\* Commitment data that also holds the signers bitset.
commitment_data_with_signers(q) ==
    <<TypeCode(q.llmq_type), q.quorum_hash, Len(q.signers), q.signers,
      Len(q.valid_members), q.valid_members, q.quorum_public_key, q.quorum_vvec_hash>>

\* QuorumEntry::commitment_data: signers, version, quorum_index and the two
\* signatures are not written.
commitment_data(q) ==
    <<TypeCode(q.llmq_type), q.quorum_hash, Len(q.valid_members), q.valid_members,
      q.quorum_public_key, q.quorum_vvec_hash>>

\* QuorumEntry::calculate_commitment_hash
calculate_commitment_hash(q) == <<"sha256", commitment_data(q)>>

\* QuorumEntry::calculate_entry_hash: sha256d of the full encoding, as a fixed
\* arithmetic mix of the encoded fields.
calculate_entry_hash(q) ==
    (TypeCode(q.llmq_type) * 5 + q.quorum_hash * 11 + q.version * 3
       + PopCount(q.signers) * 7 + PopCount(q.valid_members) * 13
       + Len(q.signers) + q.quorum_public_key * 17
       + (IF IsSome(q.quorum_index) THEN Unwrap(q.quorum_index) + 2 ELSE 0)) % 64

Status(tag, why) == [tag |-> tag, why |-> why]

NotMarkedForVerification == Status("Skipped", "NotMarkedForVerification")

\* impl From<QuorumEntry> for QualifiedQuorumEntry
QualifiedQuorumEntry(q) ==
    [quorum_entry |-> q,
     verified |-> NotMarkedForVerification,
     commitment_hash |-> calculate_commitment_hash(q),
     entry_hash |-> calculate_entry_hash(q)]

Ok == [ok |-> TRUE, err |-> ""]

Err(e) == [ok |-> FALSE, err |-> e]

\* A faulty QuorumEntry::validate_structure: the bitset lengths are compared
\* before the bits are counted.
validate_structure_lengths_first(q) ==
    IF Len(q.signers) # Len(q.valid_members) THEN Err("MismatchedBitsetLengths")
    ELSE IF PopCount(q.signers) < threshold(q.llmq_type) THEN Err("InsufficientSigners")
    ELSE IF PopCount(q.valid_members) < threshold(q.llmq_type)
        THEN Err("InsufficientValidMembers")
    ELSE IF is_zeroed_key(q.quorum_public_key) THEN Err("InvalidQuorumPublicKey")
    ELSE IF is_zeroed_sig(q.threshold_sig) THEN Err("InvalidQuorumSignature")
    ELSE IF is_zeroed_sig(q.all_commitment_aggregated_signature)
        THEN Err("InvalidFinalSignature")
    ELSE Ok

\* QuorumEntry::validate_structure: the checks in the order the code makes them.
validate_structure(q) ==
    LET quorum_threshold == threshold(q.llmq_type)
        signers_bitset_true_bits_count == PopCount(q.signers)
        valid_members_bitset_true_bits_count == PopCount(q.valid_members)
    IN  IF signers_bitset_true_bits_count < quorum_threshold
            THEN Err("InsufficientSigners")
        ELSE IF valid_members_bitset_true_bits_count < quorum_threshold
            THEN Err("InsufficientValidMembers")
        ELSE IF Len(q.signers) # Len(q.valid_members)
            THEN Err("MismatchedBitsetLengths")
        ELSE IF is_zeroed_key(q.quorum_public_key)
            THEN Err("InvalidQuorumPublicKey")
        ELSE IF is_zeroed_sig(q.threshold_sig)
            THEN Err("InvalidQuorumSignature")
        ELSE IF is_zeroed_sig(q.all_commitment_aggregated_signature)
            THEN Err("InvalidFinalSignature")
        ELSE Ok

\* QualifiedQuorumEntry::update_quorum_status
update_quorum_status(quorum, result) ==
    [quorum EXCEPT !.verified =
        IF result.ok THEN Status("Verified", "")
        ELSE IF result.err = "RequiredBlockNotPresent" THEN Status("Skipped", "UnknownBlock")
        ELSE IF result.err = "RequiredMasternodeListNotPresent"
            THEN Status("Skipped", "MissedList")
        ELSE Status("Invalid", result.err)]

----------------------------------------------------------------------------
(* Quorum modifier and scores *)

\* A faulty modifier: the PreCoreV20 form at every height.
new_quorum_modifier_type_pre_v20(llmq_type, work_block_hash, work_block_height, chain_locks, net) ==
    [ok |-> TRUE, err |-> "", form |-> "PreCoreV20", llmq_type |-> llmq_type,
     block_hash |-> work_block_hash, height |-> 0, sig |-> 0]

\* LLMQModifierType::new_quorum_modifier_type
new_quorum_modifier_type(llmq_type, work_block_hash, work_block_height, chain_locks, net) ==
    IF core_v20_is_active_at(net, work_block_height)
    THEN IF HasKey(chain_locks, work_block_hash)
         THEN [ok |-> TRUE, err |-> "", form |-> "CoreV20", llmq_type |-> llmq_type,
               block_hash |-> 0, height |-> work_block_height,
               sig |-> chain_locks[work_block_hash]]
         ELSE [ok |-> FALSE, err |-> "RequiredChainLockNotPresent", form |-> "",
               llmq_type |-> llmq_type, block_hash |-> 0, height |-> 0, sig |-> 0]
    ELSE [ok |-> TRUE, err |-> "", form |-> "PreCoreV20", llmq_type |-> llmq_type,
          block_hash |-> work_block_hash, height |-> 0, sig |-> 0]

\* LLMQModifierType::build_llmq_hash: sha256 of what each form writes.
build_llmq_hash(m) ==
    IF m.form = "PreCoreV20"
    THEN (TypeCode(m.llmq_type) * 7 + m.block_hash * 5 + 1) % 16
    ELSE (TypeCode(m.llmq_type) * 7 + m.height * 3 + m.sig * 11 + 2) % 16

\* ScoreHash::create_score: sha256(confirmed_hash_hashed_with_pro_reg_tx || modifier)
create_score(confirmed_hash_hashed_with_pro_reg_tx, modifier) ==
    ((IF IsSome(confirmed_hash_hashed_with_pro_reg_tx)
      THEN Unwrap(confirmed_hash_hashed_with_pro_reg_tx) * 5 ELSE 0) + modifier * 3) % 16

\* QualifiedMasternodeListEntry::score
score(qentry, modifier) ==
    IF ~qentry.masternode_list_entry.is_valid
       \/ ~IsSome(qentry.confirmed_hash_hashed_with_pro_reg_tx)
    THEN None
    ELSE Some(create_score(qentry.confirmed_hash_hashed_with_pro_reg_tx, modifier))

\* MasternodeList::scores_for_quorum_for_masternodes: the BTreeMap from score
\* to entry collected from the entries in order (a later entry with the same
\* score replaces an earlier one).
RECURSIVE scores_for_quorum_for_masternodes(_, _, _)
scores_for_quorum_for_masternodes(entries, quorum_modifier, hpmn_only) ==
    IF entries = << >> THEN EmptyMap
    ELSE LET n == Len(entries)
             rest == scores_for_quorum_for_masternodes(SubSeq(entries, 1, n - 1),
                                                       quorum_modifier, hpmn_only)
             entry == entries[n]
             sc == score(entry, quorum_modifier)
         IN  IF (~hpmn_only \/ entry.masternode_list_entry.mn_type = "HighPerformance")
                /\ IsSome(sc)
             THEN MapPut(rest, Unwrap(sc), entry)
             ELSE rest

\* impl Ord for ScoreHash + BTreeMap::into_values().rev(): the values in
\* descending order of the byte-reversed score.
ValuesDescending(score_map) ==
    LET asc == SortedSeq({Reverse(k) : k \in DOMAIN score_map})
        n == Len(asc)
    IN  [i \in 1..n |-> score_map[Reverse(asc[n + 1 - i])]]

\* BTreeMap::values() of a map with integer keys: the values in key order.
Values(m) == LET keys == SortedSeq(DOMAIN m) IN [i \in 1..Len(keys) |-> m[keys[i]]]

\* Iterator::take
Take(s, n) == SubSeq(s, 1, IF Len(s) < n THEN Len(s) ELSE n)

----------------------------------------------------------------------------
(* Masternode lists *)

\* sha256d of the 64 bytes left || right, as a fixed arithmetic mix.
MerkleNode(left, right) == (left * 31 + right * 17 + 7) % 1009

\* merkle_root_from_hashes: one level up, pairing an unpaired last node with itself.
RECURSIVE HigherLevel(_)
HigherLevel(level) ==
    IF level = << >> THEN << >>
    ELSE IF Len(level) = 1 THEN <<MerkleNode(level[1], level[1])>>
    ELSE <<MerkleNode(level[1], level[2])>> \o HigherLevel(SubSeq(level, 3, Len(level)))

RECURSIVE MerkleLevels(_)
MerkleLevels(level) == IF Len(level) = 1 THEN level[1] ELSE MerkleLevels(HigherLevel(level))

\* merkle_root_from_hashes
merkle_root_from_hashes(hashes) == IF hashes = << >> THEN None ELSE Some(MerkleLevels(hashes))

\* A faulty order of the leaves: the order in which the map iterates.
hashes_for_merkle_root_in_key_order(masternodes, block_height) ==
    IF block_height = -1 THEN None
    ELSE LET keys == SortedSeq(DOMAIN masternodes)
         IN  Some([i \in 1..Len(keys) |-> masternodes[keys[i]].entry_hash])

\* MasternodeList::hashes_for_merkle_root: the keys (reversed hashes) sorted by
\* their own reversal, mapped to the entry hashes.
hashes_for_merkle_root(masternodes, block_height) ==
    IF block_height = -1 THEN None
    ELSE LET sorted == SortedSeq({Reverse(k) : k \in DOMAIN masternodes})
         IN  Some([i \in 1..Len(sorted) |-> masternodes[Reverse(sorted[i])].entry_hash])

\* MasternodeList::calculate_masternodes_merkle_root
calculate_masternodes_merkle_root(masternodes, block_height) ==
    LET hashes == hashes_for_merkle_root(masternodes, block_height)
    IN  IF IsSome(hashes) THEN merkle_root_from_hashes(Unwrap(hashes)) ELSE None

\* MasternodeList::hashes_for_quorum_merkle_root (a sorted Vec keeps duplicate
\* digests; the digests are counted through the (type, quorum hash) keys)
RECURSIVE SortedDigests(_, _)
SortedDigests(quorums, keys) ==
    IF keys = {} THEN << >>
    ELSE LET k == CHOOSE x \in keys : \A y \in keys :
                    \/ quorums[x[1]][x[2]].entry_hash < quorums[y[1]][y[2]].entry_hash
                    \/ /\ quorums[x[1]][x[2]].entry_hash = quorums[y[1]][y[2]].entry_hash
                       /\ \/ TypeCode(x[1]) < TypeCode(y[1])
                          \/ x[1] = y[1] /\ x[2] <= y[2]
         IN  <<quorums[k[1]][k[2]].entry_hash>> \o SortedDigests(quorums, keys \ {k})

hashes_for_quorum_merkle_root(quorums) ==
    SortedDigests(quorums, UNION {{<<t, h>> : h \in DOMAIN quorums[t]} : t \in DOMAIN quorums})

\* MasternodeList::calculate_llmq_merkle_root
calculate_llmq_merkle_root(quorums) == merkle_root_from_hashes(hashes_for_quorum_merkle_root(quorums))

\* MasternodeList::new
MasternodeList_new(masternodes, quorums, block_hash, block_height, quorums_active) ==
    [block_hash |-> block_hash,
     known_height |-> block_height,
     masternode_merkle_root |-> calculate_masternodes_merkle_root(masternodes, block_height),
     llmq_merkle_root |-> IF quorums_active THEN calculate_llmq_merkle_root(quorums) ELSE None,
     masternodes |-> masternodes,
     quorums |-> quorums]

\* MnListDiff (the fields the engine reads)
MnListDiff(base, block, merkle_hashes, deleted_mns, new_mns, deleted_qs, new_qs) ==
    [base_block_hash |-> base, block_hash |-> block, merkle_hashes |-> merkle_hashes,
     deleted_masternodes |-> deleted_mns, new_masternodes |-> new_mns,
     deleted_quorums |-> deleted_qs, new_quorums |-> new_qs]

\* apply_diff: "Remove deleted masternodes" (keys are the reversed hashes)
RECURSIVE RemoveMasternodes(_, _)
RemoveMasternodes(masternodes, deleted) ==
    IF deleted = << >> THEN masternodes
    ELSE RemoveMasternodes(MapRemove(masternodes, Reverse(Head(deleted))), Tail(deleted))

\* apply_diff: "Add or update new masternodes"
RECURSIVE InsertMasternodes(_, _)
InsertMasternodes(masternodes, new_mns) ==
    IF new_mns = << >> THEN masternodes
    ELSE InsertMasternodes(
            MapPut(masternodes, Reverse(Head(new_mns).pro_reg_tx_hash),
                   QualifiedMasternodeListEntry(Head(new_mns))),
            Tail(new_mns))

\* A faulty removal: an emptied type bucket stays in the map.
RECURSIVE RemoveQuorumsKeepBucket(_, _)
RemoveQuorumsKeepBucket(quorums, deleted) ==
    IF deleted = << >> THEN quorums
    ELSE LET d == Head(deleted)
         IN  RemoveQuorumsKeepBucket(
                IF HasKey(quorums, d.llmq_type)
                THEN MapPut(quorums, d.llmq_type, MapRemove(quorums[d.llmq_type], d.quorum_hash))
                ELSE quorums,
                Tail(deleted))

\* apply_diff: "Remove deleted quorums" (an emptied type bucket is dropped)
RECURSIVE RemoveQuorums(_, _)
RemoveQuorums(quorums, deleted) ==
    IF deleted = << >> THEN quorums
    ELSE LET d == Head(deleted)
         IN  IF HasKey(quorums, d.llmq_type)
             THEN LET quorum_map == MapRemove(quorums[d.llmq_type], d.quorum_hash)
                  IN  RemoveQuorums(IF DOMAIN quorum_map = {}
                                    THEN MapRemove(quorums, d.llmq_type)
                                    ELSE MapPut(quorums, d.llmq_type, quorum_map),
                                    Tail(deleted))
             ELSE RemoveQuorums(quorums, Tail(deleted))

\* apply_diff: "Add or update new quorums"; also the fold of from_diff, whose
\* entries are built with the same status and hashes.
RECURSIVE InsertQuorums(_, _)
InsertQuorums(quorums, new_qs) ==
    IF new_qs = << >> THEN quorums
    ELSE LET q == Head(new_qs)
             bucket == IF HasKey(quorums, q.llmq_type) THEN quorums[q.llmq_type] ELSE EmptyMap
         IN  InsertQuorums(
                MapPut(quorums, q.llmq_type, MapPut(bucket, q.quorum_hash, QualifiedQuorumEntry(q))),
                Tail(new_qs))

\* A faulty update: the new masternodes are inserted before the deleted ones
\* are removed.
UpdatedListInsertFirst(list, diff, diff_end_height) ==
    MasternodeList_new(
        RemoveMasternodes(InsertMasternodes(list.masternodes, diff.new_masternodes),
                          diff.deleted_masternodes),
        InsertQuorums(RemoveQuorums(list.quorums, diff.deleted_quorums), diff.new_quorums),
        diff.block_hash, diff_end_height, TRUE)

\* MasternodeList::apply_diff after the base check: the updated maps and
\* MasternodeList::new on them.
UpdatedList(list, diff, diff_end_height) ==
    MasternodeList_new(
        InsertMasternodes(RemoveMasternodes(list.masternodes, diff.deleted_masternodes),
                          diff.new_masternodes),
        InsertQuorums(RemoveQuorums(list.quorums, diff.deleted_quorums), diff.new_quorums),
        diff.block_hash, diff_end_height, TRUE)

\* A faulty MasternodeList::apply_diff: the base block hash is not compared.
MasternodeList_apply_diff_any_base(list, diff, diff_end_height) ==
    [ok |-> TRUE, err |-> "", list |-> UpdatedList(list, diff, diff_end_height)]

\* MasternodeList::apply_diff
MasternodeList_apply_diff(list, diff, diff_end_height) ==
    IF list.block_hash # diff.base_block_hash
    THEN [ok |-> FALSE, err |-> "BaseBlockHashMismatch", list |-> list]
    ELSE [ok |-> TRUE, err |-> "", list |-> UpdatedList(list, diff, diff_end_height)]

NoList == [block_hash |-> 0, known_height |-> 0, masternode_merkle_root |-> None,
           llmq_merkle_root |-> None, masternodes |-> EmptyMap, quorums |-> EmptyMap]

\* impl TryFromWithBlockHashLookup<MnListDiff> for MasternodeList; looked_up is
\* what block_hash_lookup returns for diff.block_hash.
try_from_with_block_hash_lookup(diff, looked_up, net) ==
    IF IsSome(known_genesis_block_hash(net))
       /\ diff.base_block_hash # Unwrap(known_genesis_block_hash(net))
    THEN [ok |-> FALSE, err |-> "BaseBlockNotGenesis", list |-> NoList]
    ELSE IF ~IsSome(looked_up)
    THEN [ok |-> FALSE, err |-> "BlockHashLookupFailed", list |-> NoList]
    ELSE IF diff.merkle_hashes = << >> \/ diff.new_masternodes = << >>
    THEN [ok |-> FALSE, err |-> "IncompleteMnListDiff", list |-> NoList]
    ELSE [ok |-> TRUE, err |-> "",
          list |-> [block_hash |-> diff.block_hash,
                    known_height |-> Unwrap(looked_up),
                    masternode_merkle_root |-> Some(diff.merkle_hashes[1]),
                    llmq_merkle_root |-> None,
                    masternodes |-> InsertMasternodes(EmptyMap, diff.new_masternodes),
                    quorums |-> InsertQuorums(EmptyMap, diff.new_quorums)]]

----------------------------------------------------------------------------
(* Signature verification *)

\* G1Element::from_bytes_legacy / G1Element::from_bytes on an operator key:
\* the bytes decode under the scheme they were written in.
DecodesOperatorKey(entry) ==
    entry.operator_public_key.scheme = (IF use_legacy_bls_keys(entry) THEN "legacy" ELSE "basic")

\* Integers in ascending order, duplicates kept.
RECURSIVE SortedBag(_)
SortedBag(s) ==
    IF s = << >> THEN << >>
    ELSE LET i == CHOOSE j \in DOMAIN s : \A k \in DOMAIN s : s[j] <= s[k]
         IN  <<s[i]>> \o SortedBag(SubSeq(s, 1, i - 1) \o SubSeq(s, i + 1, Len(s)))

\* verify_aggregated_commitment_signature: the filter_map that builds
\* public_keys2 (a key that fails to decode is printed and left out).
RECURSIVE public_keys2(_)
public_keys2(operator_keys) ==
    IF operator_keys = << >> THEN << >>
    ELSE (IF DecodesOperatorKey(Head(operator_keys))
          THEN <<Head(operator_keys).operator_public_key.point>> ELSE << >>)
         \o public_keys2(Tail(operator_keys))

\* BasicSchemeMPL::verify_secure
verify_secure(public_keys, message, sig) ==
    /\ sig.tag = "agg"
    /\ public_keys # << >>
    /\ sig.keys = SortedBag(public_keys)
    /\ sig.msg = message

\* QualifiedQuorumEntry::verify_aggregated_commitment_signature
verify_aggregated_commitment_signature(quorum, operator_keys) ==
    LET sig == quorum.quorum_entry.all_commitment_aggregated_signature
    IN  IF sig.tag \in {"garbage", "zero"}
        THEN Err("AllCommitmentAggregatedSignatureNotValid")
        ELSE IF verify_secure(public_keys2(operator_keys), quorum.commitment_hash, sig)
        THEN Ok
        ELSE Err("AllCommitmentAggregatedSignatureNotValid")

\* QualifiedQuorumEntry::verify_quorum_signature (a negative key stands for
\* bytes that are no G1 element)
verify_quorum_signature(quorum) ==
    LET pk == quorum.quorum_entry.quorum_public_key
        sig == quorum.quorum_entry.threshold_sig
    IN  IF pk <= 0 THEN Err("InvalidBLSPublicKey")
        ELSE IF sig.tag \in {"garbage", "zero"} THEN Err("InvalidBLSSignature")
        ELSE IF sig.tag = "sig" /\ sig.pk = pk /\ sig.msg = quorum.commitment_hash THEN Ok
        ELSE Err("ThresholdSignatureNotValid")

\* QualifiedQuorumEntry::validate
validate(quorum, valid_masternodes) ==
    LET aggregated == verify_aggregated_commitment_signature(quorum, valid_masternodes)
    IN  IF ~aggregated.ok THEN aggregated ELSE verify_quorum_signature(quorum)

\* The closure validate_quorum hands to validate: the entries of the members
\* at the positions whose signer bit exists and is set.
RECURSIVE SigningEntries(_, _, _)
SigningEntries(masternodes, signers, i) ==
    IF i > Len(masternodes) THEN << >>
    ELSE (IF i <= Len(signers) /\ signers[i]
          THEN <<masternodes[i].masternode_list_entry>> ELSE << >>)
         \o SigningEntries(masternodes, signers, i + 1)

----------------------------------------------------------------------------
(* Quarter reconstruction for rotated quorums *)

\* QuorumSnapshot
QuorumSnapshot(mode, active_quorum_members, skip_list) ==
    [skip_list_mode |-> mode, active_quorum_members |-> active_quorum_members,
     skip_list |-> skip_list]

\* slice::chunks
RECURSIVE Chunks(_, _)
Chunks(s, n) ==
    IF s = << >> THEN << >>
    ELSE IF Len(s) <= n THEN <<s>>
    ELSE <<SubSeq(s, 1, n)>> \o Chunks(SubSeq(s, n + 1, Len(s)), n)

\* SkipFirst: processed_skip_list; first_entry_index is the closure's state.
RECURSIVE processed_skip_list(_, _)
processed_skip_list(skip_list, first_entry_index) ==
    IF skip_list = << >> THEN << >>
    ELSE IF first_entry_index = 0
    THEN <<Head(skip_list)>> \o processed_skip_list(Tail(skip_list), Head(skip_list))
    ELSE <<AddU32(first_entry_index, Head(skip_list))>>
         \o processed_skip_list(Tail(skip_list), first_entry_index)

\* SkipFirst: the while loop that fills one quarter (idx and skip_idx count from 0).
RECURSIVE SkipFirstQuarter(_, _, _, _, _, _)
SkipFirstQuarter(combined, processed, quarter_size, quarter, idx, skip_idx) ==
    IF Len(quarter) >= quarter_size
    THEN [quarter |-> quarter, idx |-> idx, skip_idx |-> skip_idx]
    ELSE LET index == (idx + 1) % Len(combined)
         IN  IF skip_idx < Len(processed) /\ idx = processed[skip_idx + 1]
             THEN SkipFirstQuarter(combined, processed, quarter_size, quarter, index,
                                   skip_idx + 1)
             ELSE SkipFirstQuarter(combined, processed, quarter_size,
                                   Append(quarter, combined[idx + 1]), index, skip_idx)

\* SkipFirst: the map over 0..quorum_count
RECURSIVE SkipFirstQuarters(_, _, _, _, _, _)
SkipFirstQuarters(combined, processed, quarter_size, remaining, idx, skip_idx) ==
    IF remaining = 0 THEN << >>
    ELSE LET one == SkipFirstQuarter(combined, processed, quarter_size, << >>, idx, skip_idx)
         IN  <<one.quarter>> \o SkipFirstQuarters(combined, processed, quarter_size,
                                                  remaining - 1, one.idx, one.skip_idx)

\* SkipExcept: skip_list.iter().filter_map(|i| combined.get(i))
RECURSIVE NotSkipped(_, _)
NotSkipped(combined, skip_list) ==
    IF skip_list = << >> THEN << >>
    ELSE (IF Head(skip_list) < Len(combined) THEN <<combined[Head(skip_list) + 1]>> ELSE << >>)
         \o NotSkipped(combined, Tail(skip_list))

ProTxHashes(entries) == {entries[k].masternode_list_entry.pro_reg_tx_hash : k \in DOMAIN entries}

\* New: the while loop of one quorum index; stops the whole reconstruction
\* (aborted) after a full pass that added nothing.
RECURSIVE NewQuarter(_, _, _, _, _, _, _, _)
NewQuarter(combined, quarter_size, used_mns_count, used_at_i, quarter, idx, updated, initial_loop_idx) ==
    IF ~(Len(quarter) < quarter_size /\ used_mns_count + Len(quarter) < Len(combined))
    THEN [quarter |-> quarter, idx |-> idx, aborted |-> FALSE]
    ELSE LET mn == combined[idx + 1]
             skip == mn.masternode_list_entry.pro_reg_tx_hash \in ProTxHashes(used_at_i)
             used2 == IF skip THEN used_at_i ELSE Append(used_at_i, mn)
             quarter2 == IF skip THEN quarter ELSE Append(quarter, mn)
             updated2 == IF skip THEN updated ELSE TRUE
             idx2 == IF idx + 1 = Len(combined) THEN 0 ELSE idx + 1
         IN  IF idx2 = initial_loop_idx /\ ~updated2
             THEN [quarter |-> quarter2, idx |-> idx2, aborted |-> TRUE]
             ELSE NewQuarter(combined, quarter_size, used_mns_count, used2, quarter2, idx2,
                             IF idx2 = initial_loop_idx THEN FALSE ELSE updated2,
                             initial_loop_idx)

\* New: the loop over the quorum indices i (counted from 1); quarters holds
\* quorum_count vectors throughout.
RECURSIVE NewQuarters(_, _, _, _, _, _)
NewQuarters(combined, quarter_size, used_indexed_masternodes, quarters, i, idx) ==
    IF i > Len(quarters) THEN quarters
    ELSE LET one == NewQuarter(combined, quarter_size, Len(used_indexed_masternodes[i]),
                               used_indexed_masternodes[i], << >>, idx, FALSE, idx)
             quarters2 == [quarters EXCEPT ![i] = one.quarter]
         IN  IF one.aborted THEN quarters2
             ELSE NewQuarters(combined, quarter_size, used_indexed_masternodes, quarters2,
                              i + 1, one.idx)

\* MasternodeListEngine::apply_skip_strategy_of_type. skip_type is
\* [kind |-> "Snapshot", snapshot |-> ...] or [kind |-> "New", used_indexed |-> ...];
\* chunks(0) and a remainder by zero panic.
apply_skip_strategy_of_type(skip_type, used_at_h_masternodes, unused_at_h_masternodes, quorum_modifier, quorum_count, quarter_size) ==
    LET sorted_used_mns_list ==
            scores_for_quorum_for_masternodes(used_at_h_masternodes, quorum_modifier, FALSE)
        sorted_unused_mns_list ==
            scores_for_quorum_for_masternodes(unused_at_h_masternodes, quorum_modifier, FALSE)
        sorted_combined_mns_list ==
            ValuesDescending(sorted_unused_mns_list) \o ValuesDescending(sorted_used_mns_list)
        empty_quarters == [i \in 1..quorum_count |-> << >>]
        done(quarters) == [ok |-> TRUE, err |-> "", quarters |-> quarters]
        panic == [ok |-> FALSE, err |-> "Panic", quarters |-> << >>]
    IN  IF skip_type.kind = "Snapshot"
        THEN LET snapshot == skip_type.snapshot
             IN  CASE snapshot.skip_list_mode = "NoSkipping" ->
                        IF quarter_size = 0 THEN panic
                        ELSE done(Chunks(sorted_combined_mns_list, quarter_size))
                   [] snapshot.skip_list_mode = "SkipFirst" ->
                        IF quorum_count > 0 /\ quarter_size > 0
                           /\ sorted_combined_mns_list = << >>
                        THEN panic
                        ELSE done(SkipFirstQuarters(sorted_combined_mns_list,
                                                    processed_skip_list(snapshot.skip_list, 0),
                                                    quarter_size, quorum_count, 0, 0))
                   [] snapshot.skip_list_mode = "SkipExcept" ->
                        done([i \in 1..quorum_count |->
                                Take(NotSkipped(sorted_combined_mns_list, snapshot.skip_list),
                                     quarter_size)])
                   [] OTHER -> done(empty_quarters)
        ELSE done(NewQuarters(sorted_combined_mns_list, quarter_size, skip_type.used_indexed,
                              empty_quarters, 1, 0))

----------------------------------------------------------------------------
(* Member derivation.  An engine value e is the record of the fields of      *)
(* MasternodeListEngine; the variables hold the fields of the one engine.    *)

Engine(bhashes, bheights, lists, chain_locks, snapshots, commitments, net) ==
    [block_hashes |-> bhashes, block_heights |-> bheights, masternode_lists |-> lists,
     known_chain_locks |-> chain_locks, known_snapshots |-> snapshots,
     last_commitment_entries |-> commitments, network |-> net]

\* The error value of a derivation: no members.
NoMembers(e) == [ok |-> FALSE, err |-> e, members |-> << >>]

\* MasternodeList::scores_for_quorum
scores_for_quorum(list, quorum_modifier, hpmn_only) ==
    scores_for_quorum_for_masternodes(Values(list.masternodes), quorum_modifier, hpmn_only)

\* A faulty selection: entries of every type also for the platform type.
valid_masternodes_for_quorum_any_type(list, quorum, quorum_modifier_type, net) ==
    Take(ValuesDescending(scores_for_quorum(list, build_llmq_hash(quorum_modifier_type),
                                            FALSE)),
         size(quorum.quorum_entry.llmq_type))

\* MasternodeList::valid_masternodes_for_quorum
valid_masternodes_for_quorum(list, quorum, quorum_modifier_type, net) ==
    LET llmq_type == quorum.quorum_entry.llmq_type
        hpmn_only == llmq_type = platform_type(net)
        score_dictionary ==
            scores_for_quorum(list, build_llmq_hash(quorum_modifier_type), hpmn_only)
    IN  Take(ValuesDescending(score_dictionary), size(llmq_type))

\* MasternodeListEngine::masternode_list_and_height_for_block_hash_8_blocks_ago
masternode_list_and_height_for_block_hash_8_blocks_ago(e, block_hash) ==
    IF HasKey(e.block_heights, block_hash)
    THEN LET height == SaturatingSub(e.block_heights[block_hash], 8)
         IN  IF HasKey(e.masternode_lists, height)
             THEN [ok |-> TRUE, err |-> "", list |-> e.masternode_lists[height],
                   height |-> height]
             ELSE [ok |-> FALSE, err |-> "RequiredMasternodeListNotPresent",
                   list |-> NoList, height |-> height]
    ELSE [ok |-> FALSE, err |-> "RequiredBlockNotPresent", list |-> NoList, height |-> 0]

\* MasternodeListEngine::find_non_rotated_masternodes_for_quorum
find_non_rotated_masternodes_for_quorum(e, quorum) ==
    LET found == masternode_list_and_height_for_block_hash_8_blocks_ago(
                    e, quorum.quorum_entry.quorum_hash)
    IN  IF ~found.ok THEN NoMembers(found.err)
        ELSE LET quorum_modifier_type ==
                    new_quorum_modifier_type(quorum.quorum_entry.llmq_type,
                                             found.list.block_hash, found.height,
                                             e.known_chain_locks, e.network)
             IN  IF ~quorum_modifier_type.ok THEN NoMembers(quorum_modifier_type.err)
                 ELSE [ok |-> TRUE, err |-> "",
                       members |-> valid_masternodes_for_quorum(
                                      found.list, quorum, quorum_modifier_type, e.network)]

\* MasternodeList::has_valid_masternode
has_valid_masternode(list, key) ==
    HasKey(list.masternodes, key) /\ list.masternodes[key].masternode_list_entry.is_valid

\* MasternodeList::used_and_unused_masternodes_for_quorum: the partition of
\* the score-ordered entries by the snapshot's bit at their position.
used_and_unused_masternodes_for_quorum(list, quorum_llmq_type, quorum_modifier_type, quorum_snapshot, net) ==
    LET hpmn_only == quorum_llmq_type = platform_type(net)
        masternode_entry_list ==
            ValuesDescending(scores_for_quorum(list, build_llmq_hash(quorum_modifier_type),
                                               hpmn_only))
        used(i) == i <= Len(quorum_snapshot.active_quorum_members)
                   /\ quorum_snapshot.active_quorum_members[i]
        marked == [i \in DOMAIN masternode_entry_list |-> <<used(i), masternode_entry_list[i]>>]
        entries(pairs) == [i \in DOMAIN pairs |-> pairs[i][2]]
    IN  [used |-> entries(SelectSeq(marked, LAMBDA p : p[1])),
         unused |-> entries(SelectSeq(marked, LAMBDA p : ~p[1]))]

\* Entries in order, keeping the first of each pro_reg_tx_hash.
RECURSIVE FirstOfEachHash(_, _)
FirstOfEachHash(nodes, kept) ==
    IF nodes = << >> THEN kept
    ELSE FirstOfEachHash(
            Tail(nodes),
            IF Head(nodes).masternode_list_entry.pro_reg_tx_hash \in ProTxHashes(kept)
            THEN kept ELSE Append(kept, Head(nodes)))

\* usage_info: the nodes of the three previous quarters at index i (from 1)
\* that the list holds as valid, in the order the loops visit them.
QuarterNodesAt(list, previous_quarters, i) ==
    LET at(quarter) == IF i <= Len(quarter) THEN quarter[i] ELSE << >>
    IN  SelectSeq(at(previous_quarters[1]) \o at(previous_quarters[2])
                    \o at(previous_quarters[3]),
                  LAMBDA node :
                    has_valid_masternode(list,
                        Reverse(node.masternode_list_entry.pro_reg_tx_hash)))

RECURSIVE QuarterNodesUpTo(_, _, _)
QuarterNodesUpTo(list, previous_quarters, n) ==
    IF n = 0 THEN << >>
    ELSE QuarterNodesUpTo(list, previous_quarters, n - 1)
         \o QuarterNodesAt(list, previous_quarters, n)

\* A faulty usage_info: no node counts as used at any index.
usage_info_nothing_indexed(list, previous_quarters, quorum_count) ==
    LET used_masternodes ==
            FirstOfEachHash(QuarterNodesUpTo(list, previous_quarters, quorum_count), << >>)
    IN  [used |-> used_masternodes,
         unused |-> SelectSeq(Values(list.masternodes),
                              LAMBDA mn :
                                /\ mn.masternode_list_entry.is_valid
                                /\ mn.masternode_list_entry.pro_reg_tx_hash
                                      \notin ProTxHashes(used_masternodes)),
         used_indexed |-> [i \in 1..quorum_count |-> << >>]]

\* MasternodeList::usage_info
usage_info(list, previous_quarters, quorum_count) ==
    LET used_masternodes ==
            FirstOfEachHash(QuarterNodesUpTo(list, previous_quarters, quorum_count), << >>)
    IN  [used |-> used_masternodes,
         unused |-> SelectSeq(Values(list.masternodes),
                              LAMBDA mn :
                                /\ mn.masternode_list_entry.is_valid
                                /\ mn.masternode_list_entry.pro_reg_tx_hash
                                      \notin ProTxHashes(used_masternodes)),
         used_indexed |-> [i \in 1..quorum_count |->
                              FirstOfEachHash(QuarterNodesAt(list, previous_quarters, i),
                                              << >>)]]

NoQuarters(e) == [ok |-> FALSE, err |-> e, quarters |-> << >>]

\* MasternodeListEngine::quorum_quarter_members_by_reconstruction_type;
\* reconstruction_type is [kind |-> "Snapshot"] or "New" with previous_quarters.
quorum_quarter_members_by_reconstruction_type(e, quorum_llmq_type, reconstruction_type, work_block_height) ==
    IF ~HasKey(e.block_hashes, work_block_height)
    THEN NoQuarters("RequiredBlockHeightNotPresent")
    ELSE IF ~HasKey(e.masternode_lists, work_block_height)
    THEN NoQuarters("RequiredMasternodeListNotPresent")
    ELSE
    LET work_block_hash == e.block_hashes[work_block_height]
        masternode_list == e.masternode_lists[work_block_height]
        quorum_count == signing_active_quorum_count(quorum_llmq_type)
        quarter_size == size(quorum_llmq_type) \div 4
    IN  Let1(new_quorum_modifier_type(quorum_llmq_type, work_block_hash, work_block_height,
                                      e.known_chain_locks, e.network),
             LAMBDA quorum_modifier_type :
        IF ~quorum_modifier_type.ok THEN NoQuarters(quorum_modifier_type.err)
        ELSE IF reconstruction_type.kind = "New"
        THEN Let1(usage_info(masternode_list, reconstruction_type.previous_quarters,
                             quorum_count), LAMBDA info :
             apply_skip_strategy_of_type(
                [kind |-> "New", used_indexed |-> info.used_indexed],
                info.used, info.unused, build_llmq_hash(quorum_modifier_type),
                quorum_count, quarter_size))
        ELSE IF HasKey(e.known_snapshots, work_block_hash)
        THEN Let1(used_and_unused_masternodes_for_quorum(
                    masternode_list, quorum_llmq_type, quorum_modifier_type,
                    e.known_snapshots[work_block_hash], e.network), LAMBDA parts :
             apply_skip_strategy_of_type(
                [kind |-> "Snapshot", snapshot |-> e.known_snapshots[work_block_hash]],
                parts.used, parts.unused, build_llmq_hash(quorum_modifier_type),
                quorum_count, quarter_size))
        ELSE NoQuarters("RequiredSnapshotNotPresent"))

\* Vec::resize_with(new_len, Vec::new)
ResizeWith(v, new_len) ==
    [i \in 1..new_len |-> IF i <= Len(v) THEN v[i] ELSE << >>]

\* MasternodeListEngine::add_quorum_members_from_quarter (index counts from 0)
add_quorum_members_from_quarter(quorum_members, quarter, index) ==
    IF index < Len(quarter)
    THEN LET resized == ResizeWith(quorum_members, index + 1)
         IN  [resized EXCEPT ![index + 1] = @ \o quarter[index + 1]]
    ELSE quorum_members

\* A faulty for_each: the new quarter is added first.
RECURSIVE CollectQuorumMembersNewFirst(_, _, _, _, _, _, _)
CollectQuorumMembersNewFirst(quorum_members, q_h_m_3c, q_h_m_2c, q_h_m_c, last_quarter, index, num_quorums) ==
    IF index >= num_quorums THEN quorum_members
    ELSE CollectQuorumMembersNewFirst(
            add_quorum_members_from_quarter(
                add_quorum_members_from_quarter(
                    add_quorum_members_from_quarter(
                        add_quorum_members_from_quarter(quorum_members, last_quarter, index),
                        q_h_m_3c, index),
                    q_h_m_2c, index),
                q_h_m_c, index),
            q_h_m_3c, q_h_m_2c, q_h_m_c, last_quarter, index + 1, num_quorums)

\* masternode_list_entry_members_for_rotated_quorum: the for_each over
\* 0..num_quorums, from index on.
RECURSIVE CollectQuorumMembers(_, _, _, _, _, _, _)
CollectQuorumMembers(quorum_members, q_h_m_3c, q_h_m_2c, q_h_m_c, last_quarter, index, num_quorums) ==
    IF index >= num_quorums THEN quorum_members
    ELSE CollectQuorumMembers(
            add_quorum_members_from_quarter(
                add_quorum_members_from_quarter(
                    add_quorum_members_from_quarter(
                        add_quorum_members_from_quarter(quorum_members, q_h_m_3c, index),
                        q_h_m_2c, index),
                    q_h_m_c, index),
                last_quarter, index),
            q_h_m_3c, q_h_m_2c, q_h_m_c, last_quarter, index + 1, num_quorums)

\* work_block_height_for_index: (cycle_base_height - index * cycle_length) - 8 in u32
work_block_height_for_index(quorum_llmq_type, cycle_base_height, index) ==
    SubU32(SubU32(cycle_base_height, index * interval(quorum_llmq_type)), 8)

\* MasternodeListEngine::masternode_list_entry_members_for_rotated_quorum
masternode_list_entry_members_for_rotated_quorum(e, quorum_llmq_type, cycle_base_height) ==
    LET num_quorums == signing_active_quorum_count(quorum_llmq_type)
        at(index) == work_block_height_for_index(quorum_llmq_type, cycle_base_height, index)
    IN  Let1(quorum_quarter_members_by_reconstruction_type(
                e, quorum_llmq_type, [kind |-> "Snapshot"], at(3)), LAMBDA q_h_m_3c :
        IF ~q_h_m_3c.ok THEN q_h_m_3c ELSE
        Let1(quorum_quarter_members_by_reconstruction_type(
                e, quorum_llmq_type, [kind |-> "Snapshot"], at(2)), LAMBDA q_h_m_2c :
        IF ~q_h_m_2c.ok THEN q_h_m_2c ELSE
        Let1(quorum_quarter_members_by_reconstruction_type(
                e, quorum_llmq_type, [kind |-> "Snapshot"], at(1)), LAMBDA q_h_m_c :
        IF ~q_h_m_c.ok THEN q_h_m_c ELSE
        Let1(quorum_quarter_members_by_reconstruction_type(
                e, quorum_llmq_type,
                [kind |-> "New",
                 previous_quarters |->
                    <<q_h_m_c.quarters, q_h_m_2c.quarters, q_h_m_3c.quarters>>],
                at(0)), LAMBDA last_quarter :
        IF ~last_quarter.ok THEN last_quarter
        ELSE [ok |-> TRUE, err |-> "",
              quarters |-> CollectQuorumMembers(<< >>, q_h_m_3c.quarters, q_h_m_2c.quarters,
                                                q_h_m_c.quarters, last_quarter.quarters,
                                                0, num_quorums)]))))

\* Vec::get(quorum_index as usize) finds nothing: a negative index
\* sign-extends beyond every length.
OutOfRange(quorum_index, v) == quorum_index < 0 \/ quorum_index >= Len(v)

\* MasternodeListEngine::find_rotated_masternodes_for_quorum
find_rotated_masternodes_for_quorum(e, quorum) ==
    IF ~HasKey(e.block_heights, quorum.quorum_entry.quorum_hash)
    THEN NoMembers("RequiredBlockNotPresent")
    ELSE IF ~IsSome(quorum.quorum_entry.quorum_index)
    THEN NoMembers("RequiredQuorumIndexNotPresent")
    ELSE
    LET quorum_block_height == e.block_heights[quorum.quorum_entry.quorum_hash]
        quorum_index == Unwrap(quorum.quorum_entry.quorum_index)
        cycle_base_height == SubU32(quorum_block_height, I16AsU32(quorum_index))
    IN  Let1(masternode_list_entry_members_for_rotated_quorum(
                e, quorum.quorum_entry.llmq_type, cycle_base_height), LAMBDA by_index :
        IF ~by_index.ok THEN NoMembers(by_index.err)
        ELSE IF OutOfRange(quorum_index, by_index.quarters)
        THEN NoMembers("CorruptedCodeExecution")
        ELSE [ok |-> TRUE, err |-> "", members |-> by_index.quarters[quorum_index + 1]])

\* find_rotated_masternodes_for_quorums: the loop over the quorums from
\* position k on; cycles caches the members by cycle base height alone.
RECURSIVE RotatedForQuorums(_, _, _, _, _)
RotatedForQuorums(e, quorums, k, cycles, return_btree_map) ==
    IF k > Len(quorums) THEN [ok |-> TRUE, err |-> "", map |-> return_btree_map]
    ELSE
    LET quorum == quorums[k]
        fail(err) == [ok |-> FALSE, err |-> err, map |-> EmptyMap]
    IN  IF ~HasKey(e.block_heights, quorum.quorum_entry.quorum_hash)
        THEN fail("RequiredBlockNotPresent")
        ELSE IF ~IsSome(quorum.quorum_entry.quorum_index)
        THEN fail("RequiredQuorumIndexNotPresent")
        ELSE
        LET quorum_block_height == e.block_heights[quorum.quorum_entry.quorum_hash]
            quorum_index == Unwrap(quorum.quorum_entry.quorum_index)
            cycle_base_height == SubU32(quorum_block_height, I16AsU32(quorum_index))
        IN  Let1(IF HasKey(cycles, cycle_base_height)
                 THEN [ok |-> TRUE, err |-> "", quarters |-> cycles[cycle_base_height]]
                 ELSE masternode_list_entry_members_for_rotated_quorum(
                        e, quorum.quorum_entry.llmq_type, cycle_base_height),
                 LAMBDA entries :
            IF ~entries.ok THEN fail(entries.err)
            ELSE IF OutOfRange(quorum_index, entries.quarters)
            THEN fail("CorruptedCodeExecution")
            ELSE RotatedForQuorums(
                    e, quorums, k + 1, MapPut(cycles, cycle_base_height, entries.quarters),
                    MapPut(return_btree_map, quorum.quorum_entry.quorum_hash,
                           entries.quarters[quorum_index + 1])))

\* MasternodeListEngine::find_rotated_masternodes_for_quorums
find_rotated_masternodes_for_quorums(e, quorums) ==
    RotatedForQuorums(e, quorums, 1, EmptyMap, EmptyMap)

\* MasternodeListEngine::find_valid_masternodes_for_quorum
find_valid_masternodes_for_quorum(e, quorum) ==
    IF is_rotating_quorum_type(quorum.quorum_entry.llmq_type)
    THEN find_rotated_masternodes_for_quorum(e, quorum)
    ELSE find_non_rotated_masternodes_for_quorum(e, quorum)

\* MasternodeListEngine::validate_quorum
validate_quorum(e, quorum) ==
    Let1(validate_structure(quorum.quorum_entry), LAMBDA structure :
    IF ~structure.ok THEN structure ELSE
    Let1(find_valid_masternodes_for_quorum(e, quorum), LAMBDA masternodes :
    IF ~masternodes.ok THEN Err(masternodes.err)
    ELSE validate(quorum, SigningEntries(masternodes.members,
                                         quorum.quorum_entry.signers, 1))))

\* MasternodeListEngine::validate_and_update_quorum_status
validate_and_update_quorum_status(e, quorum) ==
    update_quorum_status(quorum, validate_quorum(e, quorum))

\* MasternodeListEngine::validate_rotation_cycle_quorums
RECURSIVE ValidateEach(_, _, _)
ValidateEach(quorums, masternodes_by_quorum_hash, k) ==
    IF k > Len(quorums) THEN Ok
    ELSE LET quorum == quorums[k]
             hash == quorum.quorum_entry.quorum_hash
         IN  IF ~HasKey(masternodes_by_quorum_hash, hash) THEN Err("CorruptedCodeExecution")
             ELSE LET result == validate(quorum,
                                   SigningEntries(masternodes_by_quorum_hash[hash],
                                                  quorum.quorum_entry.signers, 1))
                  IN  IF ~result.ok THEN result
                      ELSE ValidateEach(quorums, masternodes_by_quorum_hash, k + 1)

RECURSIVE StructureOfEach(_, _)
StructureOfEach(quorums, k) ==
    IF k > Len(quorums) THEN Ok
    ELSE LET structure == validate_structure(quorums[k].quorum_entry)
         IN  IF ~structure.ok THEN structure
             ELSE IF ~is_rotating_quorum_type(quorums[k].quorum_entry.llmq_type)
             THEN Err("ExpectedOnlyRotatedQuorums")
             ELSE StructureOfEach(quorums, k + 1)

validate_rotation_cycle_quorums(e, quorums) ==
    Let1(StructureOfEach(quorums, 1), LAMBDA structure :
    IF ~structure.ok THEN structure ELSE
    Let1(find_rotated_masternodes_for_quorums(e, quorums), LAMBDA masternodes_by_quorum_hash :
    IF ~masternodes_by_quorum_hash.ok THEN Err(masternodes_by_quorum_hash.err)
    ELSE ValidateEach(quorums, masternodes_by_quorum_hash.map, 1)))

\* validate_rotation_cycle_quorums_validation_statuses: the first loop
\* (structure and type), from position k on.
RECURSIVE StructureStatuses(_, _, _)
StructureStatuses(quorums, k, return_statuses) ==
    IF k > Len(quorums) THEN return_statuses
    ELSE LET quorum == quorums[k]
             hash == quorum.quorum_entry.quorum_hash
             structure == validate_structure(quorum.quorum_entry)
         IN  StructureStatuses(
                quorums, k + 1,
                IF ~structure.ok
                THEN MapPut(return_statuses, hash, Status("Invalid", structure.err))
                ELSE IF ~is_rotating_quorum_type(quorum.quorum_entry.llmq_type)
                THEN MapPut(return_statuses, hash,
                            Status("Invalid", "ExpectedOnlyRotatedQuorums"))
                ELSE return_statuses)

\* validate_rotation_cycle_quorums_validation_statuses: the last loop
\* (signatures), from position k on.
RECURSIVE SignatureStatuses(_, _, _, _)
SignatureStatuses(quorums, masternodes_by_quorum_hash, k, return_statuses) ==
    IF k > Len(quorums) THEN return_statuses
    ELSE LET quorum == quorums[k]
             hash == quorum.quorum_entry.quorum_hash
         IN  SignatureStatuses(
                quorums, masternodes_by_quorum_hash, k + 1,
                IF return_statuses[hash].tag = "Invalid" THEN return_statuses
                ELSE IF ~HasKey(masternodes_by_quorum_hash, hash)
                THEN MapPut(return_statuses, hash, Status("Invalid", "CorruptedCodeExecution"))
                ELSE LET result == validate(quorum,
                                      SigningEntries(masternodes_by_quorum_hash[hash],
                                                     quorum.quorum_entry.signers, 1))
                     IN  MapPut(return_statuses, hash,
                                IF result.ok THEN Status("Verified", "")
                                ELSE Status("Invalid", result.err)))

\* MasternodeListEngine::validate_rotation_cycle_quorums_validation_statuses;
\* panic tells that the derivation panicked and no map was returned.
validate_rotation_cycle_quorums_validation_statuses(e, quorums) ==
    LET hashes == {quorums[k].quorum_entry.quorum_hash : k \in DOMAIN quorums}
        unknown == [h \in hashes |-> Status("Unknown", "")]
        structure == StructureStatuses(quorums, 1, unknown)
    IN  Let1(find_rotated_masternodes_for_quorums(e, quorums), LAMBDA masternodes_by_quorum_hash :
        IF ~masternodes_by_quorum_hash.ok
        THEN [panic |-> masternodes_by_quorum_hash.err = "Panic",
              statuses |-> [h \in hashes |-> Status("Invalid", masternodes_by_quorum_hash.err)]]
        ELSE [panic |-> FALSE,
              statuses |-> SignatureStatuses(quorums, masternodes_by_quorum_hash.map, 1,
                                             structure)])

----------------------------------------------------------------------------
(* Engine operations as functions of the engine value.  A result carries    *)
(* the engine as the call leaves it, also when the call fails.              *)

Done(e) == [ok |-> TRUE, err |-> "", engine |-> e]

Failed(err, e) == [ok |-> FALSE, err |-> err, engine |-> e]

\* MasternodeListEngine::initialize_with_diff_to_height ([(0, base), (h, hash)].into()
\* keeps the later pair when the keys are equal)
initialize_with_diff_to_height(masternode_list_diff, block_height, net) ==
    LET block_hash == masternode_list_diff.block_hash
        base_block_hash == masternode_list_diff.base_block_hash
        masternode_list ==
            try_from_with_block_hash_lookup(masternode_list_diff, Some(block_height), net)
    IN  IF ~masternode_list.ok THEN Failed(masternode_list.err, << >>)
        ELSE Done(Engine(MapPut(MapPut(EmptyMap, 0, base_block_hash), block_height, block_hash),
                         MapPut(MapPut(EmptyMap, base_block_hash, 0), block_hash, block_height),
                         MapPut(EmptyMap, block_height, masternode_list.list),
                         EmptyMap, EmptyMap, << >>, net))

\* MasternodeListEngine::masternode_list_for_block_hash
masternode_list_for_block_hash(e, block_hash) ==
    IF HasKey(e.block_heights, block_hash)
    THEN MapGet(e.masternode_lists, e.block_heights[block_hash])
    ELSE None

\* MasternodeListEngine::feed_block_height
feed_block_height(e, height, block_hash) ==
    [e EXCEPT !.block_heights = MapPut(@, block_hash, height),
              !.block_hashes = MapPut(@, height, block_hash)]

\* A cache that drops every other ChainLock signature when the signature of
\* a block it holds is fed again.
feed_chain_lock_sig_evicting(e, block_hash, chain_lock_sig) ==
    [e EXCEPT !.known_chain_locks =
        MapPut(IF HasKey(@, block_hash) THEN EmptyMap ELSE @, block_hash, chain_lock_sig)]

\* MasternodeListEngine::feed_chain_lock_sig
feed_chain_lock_sig(e, block_hash, chain_lock_sig) ==
    [e EXCEPT !.known_chain_locks = MapPut(@, block_hash, chain_lock_sig)]

\* MasternodeList::quorum_entry_of_type_for_quorum_hash_mut
quorum_entry_of_type_for_quorum_hash(list, llmq_type, quorum_hash) ==
    IF HasKey(list.quorums, llmq_type)
    THEN MapGet(list.quorums[llmq_type], quorum_hash)
    ELSE None

\* apply_diff: "We only need to verify new quorums", from position k on.
RECURSIVE VerifyNewQuorums(_, _, _, _)
VerifyNewQuorums(e, masternode_list, new_quorums, k) ==
    IF k > Len(new_quorums) THEN [ok |-> TRUE, err |-> "", list |-> masternode_list]
    ELSE
    LET new_quorum == new_quorums[k]
        quorum == quorum_entry_of_type_for_quorum_hash(masternode_list, new_quorum.llmq_type,
                                                       new_quorum.quorum_hash)
    IN  IF ~IsSome(quorum)
        THEN [ok |-> FALSE, err |-> "CorruptedCodeExecution", list |-> masternode_list]
        ELSE Let1(validate_quorum(e, Unwrap(quorum)), LAMBDA result :
             IF ~result.ok /\ result.err = "Panic"
             THEN [ok |-> FALSE, err |-> "Panic", list |-> masternode_list]
             ELSE VerifyNewQuorums(
                    e,
                    [masternode_list EXCEPT
                        !.quorums[new_quorum.llmq_type][new_quorum.quorum_hash] =
                            update_quorum_status(@, result)],
                    new_quorums, k + 1))

\* MasternodeListEngine::apply_diff
apply_diff(e, masternode_list_diff, diff_end_height, verify_quorums) ==
    LET genesis == IF IsSome(known_genesis_block_hash(e.network))
                   THEN known_genesis_block_hash(e.network)
                   ELSE MapGet(e.block_hashes, 0)
        block_hash == masternode_list_diff.block_hash
        end_height == IF IsSome(diff_end_height) THEN diff_end_height
                      ELSE MapGet(e.block_heights, block_hash)
    IN  IF IsSome(genesis) /\ masternode_list_diff.base_block_hash = Unwrap(genesis)
        THEN \* we are going from the start
             Let1(try_from_with_block_hash_lookup(masternode_list_diff, end_height, e.network),
                  LAMBDA masternode_list :
                 IF ~masternode_list.ok THEN Failed(masternode_list.err, e)
                 ELSE Done([e EXCEPT
                        !.block_hashes = IF IsSome(diff_end_height)
                                         THEN MapPut(@, Unwrap(diff_end_height), block_hash)
                                         ELSE @,
                        !.block_heights = IF IsSome(diff_end_height)
                                          THEN MapPut(@, block_hash, Unwrap(diff_end_height))
                                          ELSE @,
                        !.masternode_lists =
                            MapPut(@, Unwrap(end_height), masternode_list.list)]))
        ELSE IF ~HasKey(e.block_heights, masternode_list_diff.base_block_hash)
        THEN Failed("MissingStartMasternodeList", e)
        ELSE IF ~HasKey(e.masternode_lists,
                        e.block_heights[masternode_list_diff.base_block_hash])
        THEN Failed("MissingStartMasternodeList", e)
        ELSE IF ~IsSome(end_height) THEN Failed("BlockHashLookupFailed", e)
        ELSE
        LET base_masternode_list ==
                e.masternode_lists[e.block_heights[masternode_list_diff.base_block_hash]]
        IN  Let1(MasternodeList_apply_diff(base_masternode_list, masternode_list_diff,
                                           Unwrap(end_height)), LAMBDA applied :
            IF ~applied.ok THEN Failed(applied.err, e) ELSE
            Let1(IF verify_quorums
                 THEN VerifyNewQuorums(e, applied.list, masternode_list_diff.new_quorums, 1)
                 ELSE applied, LAMBDA verified :
            IF ~verified.ok THEN Failed(verified.err, e)
            ELSE Done([e EXCEPT
                    !.masternode_lists = MapPut(@, Unwrap(end_height), verified.list),
                    !.block_hashes = MapPut(@, Unwrap(end_height), block_hash),
                    !.block_heights = MapPut(@, block_hash, Unwrap(end_height))])))

\* A faulty copy: the rotating quorums keep the statuses they have.
CopyNoStatuses(hash_to_quorum_entries, commitments, k) == hash_to_quorum_entries

\* verify_masternode_list_quorums: "only update based on the last commitment
\* entries", from position k on.
RECURSIVE CopyCommitmentStatuses(_, _, _)
CopyCommitmentStatuses(hash_to_quorum_entries, commitments, k) ==
    IF k > Len(commitments) THEN hash_to_quorum_entries
    ELSE LET hash == commitments[k].quorum_entry.quorum_hash
         IN  CopyCommitmentStatuses(
                IF HasKey(hash_to_quorum_entries, hash)
                THEN [hash_to_quorum_entries EXCEPT
                        ![hash].verified = commitments[k].verified]
                ELSE hash_to_quorum_entries,
                commitments, k + 1)

\* A faulty verification: no type is excluded.
verify_masternode_list_quorums_excluding_nothing(e, block_height, exclude_quorum_types) ==
    IF ~HasKey(e.masternode_lists, block_height)
    THEN Failed("VerifyingMasternodeListNotPresent", e)
    ELSE
    LET masternode_list == e.masternode_lists[block_height]
        updated(quorum_type) ==
            LET hash_to_quorum_entries == masternode_list.quorums[quorum_type]
            IN  IF is_rotating_quorum_type(quorum_type)
                THEN CopyCommitmentStatuses(hash_to_quorum_entries,
                                            e.last_commitment_entries, 1)
                ELSE [quorum_hash \in DOMAIN hash_to_quorum_entries |->
                        update_quorum_status(
                            hash_to_quorum_entries[quorum_hash],
                            validate_quorum(e, hash_to_quorum_entries[quorum_hash]))]
    IN  Done([e EXCEPT !.masternode_lists[block_height].quorums =
                            [quorum_type \in DOMAIN masternode_list.quorums |->
                                updated(quorum_type)]])

\* A faulty write-back: the buckets of the excluded types are dropped.
verify_masternode_list_quorums_results_only(e, block_height, exclude_quorum_types) ==
    IF ~HasKey(e.masternode_lists, block_height)
    THEN Failed("VerifyingMasternodeListNotPresent", e)
    ELSE Done([e EXCEPT !.masternode_lists[block_height].quorums =
                    [quorum_type \in DOMAIN @ \ exclude_quorum_types |-> @[quorum_type]]])

\* MasternodeListEngine::verify_masternode_list_quorums
verify_masternode_list_quorums(e, block_height, exclude_quorum_types) ==
    IF ~HasKey(e.masternode_lists, block_height)
    THEN Failed("VerifyingMasternodeListNotPresent", e)
    ELSE
    LET masternode_list == e.masternode_lists[block_height]
        updated(quorum_type) ==
            LET hash_to_quorum_entries == masternode_list.quorums[quorum_type]
            IN  IF quorum_type \in exclude_quorum_types THEN hash_to_quorum_entries
                ELSE IF is_rotating_quorum_type(quorum_type)
                THEN CopyCommitmentStatuses(hash_to_quorum_entries,
                                            e.last_commitment_entries, 1)
                ELSE [quorum_hash \in DOMAIN hash_to_quorum_entries |->
                        update_quorum_status(
                            hash_to_quorum_entries[quorum_hash],
                            validate_quorum(e, hash_to_quorum_entries[quorum_hash]))]
    IN  Done([e EXCEPT !.masternode_lists[block_height].quorums =
                            [quorum_type \in DOMAIN masternode_list.quorums |->
                                updated(quorum_type)]])

\* QRInfo
QRInfo(snapshot_c, snapshot_2c, snapshot_3c, diff_tip, diff_h, diff_c, diff_2c, diff_3c, h_minus_4c, commitments, snapshot_list, diff_list) ==
    [quorum_snapshot_at_h_minus_c |-> snapshot_c,
     quorum_snapshot_at_h_minus_2c |-> snapshot_2c,
     quorum_snapshot_at_h_minus_3c |-> snapshot_3c,
     mn_list_diff_tip |-> diff_tip,
     mn_list_diff_h |-> diff_h,
     mn_list_diff_at_h_minus_c |-> diff_c,
     mn_list_diff_at_h_minus_2c |-> diff_2c,
     mn_list_diff_at_h_minus_3c |-> diff_3c,
     quorum_snapshot_and_mn_list_diff_at_h_minus_4c |-> h_minus_4c,
     last_commitment_per_index |-> commitments,
     quorum_snapshot_list |-> snapshot_list,
     mn_list_diff_list |-> diff_list]

\* A host callback is the map of the answers it has; it fails on every other
\* block hash (fetch_block_height) or answers Ok(None) (fetch_chain_lock_sigs).
\* request_quorum_entry_height / one half of request_mn_list_diff_heights
RequestHeight(r, block_hash, fetch_block_height) ==
    IF ~r.ok \/ HasKey(r.engine.block_heights, block_hash) THEN r
    ELSE IF ~HasKey(fetch_block_height, block_hash)
    THEN Failed("ClientDataRetrievalError", r.engine)
    ELSE Done(feed_block_height(r.engine, fetch_block_height[block_hash], block_hash))

\* MasternodeListEngine::request_mn_list_diff_heights
request_mn_list_diff_heights(r, mn_list_diff, fetch_block_height) ==
    RequestHeight(RequestHeight(r, mn_list_diff.base_block_hash, fetch_block_height),
                  mn_list_diff.block_hash, fetch_block_height)

\* MasternodeListEngine::request_quorum_entry_height
request_quorum_entry_height(r, quorum_entry, fetch_block_height) ==
    RequestHeight(r, quorum_entry.quorum_hash, fetch_block_height)

RECURSIVE RequestDiffsHeights(_, _, _)
RequestDiffsHeights(r, diffs, fetch_block_height) ==
    IF diffs = << >> THEN r
    ELSE RequestDiffsHeights(request_mn_list_diff_heights(r, Head(diffs), fetch_block_height),
                             Tail(diffs), fetch_block_height)

RECURSIVE RequestQuorumsHeights(_, _, _)
RequestQuorumsHeights(r, quorums, fetch_block_height) ==
    IF quorums = << >> THEN r
    ELSE RequestQuorumsHeights(
            request_quorum_entry_height(r, Head(quorums), fetch_block_height),
            Tail(quorums), fetch_block_height)

\* MasternodeListEngine::request_qr_info_block_heights
request_qr_info_block_heights(e, qr_info, fetch_block_height) ==
    LET mn_list_diffs == <<qr_info.mn_list_diff_tip, qr_info.mn_list_diff_h,
                           qr_info.mn_list_diff_at_h_minus_c,
                           qr_info.mn_list_diff_at_h_minus_2c,
                           qr_info.mn_list_diff_at_h_minus_3c>>
        h_minus_4c == qr_info.quorum_snapshot_and_mn_list_diff_at_h_minus_4c
    IN  RequestDiffsHeights(
            RequestQuorumsHeights(
                RequestDiffsHeights(
                    Done(e),
                    IF IsSome(h_minus_4c)
                    THEN Append(mn_list_diffs, Unwrap(h_minus_4c)[2])
                    ELSE mn_list_diffs,
                    fetch_block_height),
                qr_info.last_commitment_per_index, fetch_block_height),
            qr_info.mn_list_diff_list, fetch_block_height)

\* required_cl_sig_heights: the loop over last_commitment_per_index.
RECURSIVE RequiredHeights(_, _, _)
RequiredHeights(e, quorums, required_heights) ==
    IF quorums = << >> THEN [ok |-> TRUE, err |-> "", heights |-> required_heights]
    ELSE
    LET quorum == Head(quorums)
    IN  IF ~HasKey(e.block_heights, quorum.quorum_hash)
        THEN [ok |-> FALSE, err |-> "RequiredBlockNotPresent", heights |-> {}]
        ELSE
        LET quorum_block_height == e.block_heights[quorum.quorum_hash]
            cycle_length == interval(quorum.llmq_type)
            quorum_index == quorum_block_height % cycle_length
            cycle_base_height == quorum_block_height - quorum_index
        IN  RequiredHeights(
                e, Tail(quorums),
                required_heights
                  \cup {SubU32(SubU32(cycle_base_height, i * cycle_length), 8) : i \in 0..3})

\* MasternodeListEngine::required_cl_sig_heights
required_cl_sig_heights(e, qr_info) ==
    RequiredHeights(e, qr_info.last_commitment_per_index, {})

\* request_qr_info_cl_sigs: the loop over the heights in ascending order.
RECURSIVE RequestClSigs(_, _, _)
RequestClSigs(e, heights, fetch_chain_lock_sigs) ==
    IF heights = << >> THEN Done(e)
    ELSE IF ~HasKey(e.block_hashes, Head(heights))
    THEN Failed("RequiredBlockHeightNotPresent", e)
    ELSE LET block_hash == e.block_hashes[Head(heights)]
         IN  RequestClSigs(
                IF HasKey(fetch_chain_lock_sigs, block_hash)
                THEN feed_chain_lock_sig(e, block_hash, fetch_chain_lock_sigs[block_hash])
                ELSE e,
                Tail(heights), fetch_chain_lock_sigs)

\* MasternodeListEngine::request_qr_info_cl_sigs
request_qr_info_cl_sigs(e, qr_info, fetch_chain_lock_sigs) ==
    LET heights == required_cl_sig_heights(e, qr_info)
    IN  IF ~heights.ok THEN Failed(heights.err, e)
        ELSE RequestClSigs(e, SortedU32(heights.heights), fetch_chain_lock_sigs)

\* One ingestion step of feed_qr_info: known_snapshots.insert(diff.block_hash,
\* snapshot) when the step has a snapshot, then apply_diff(diff, None, false)?
Step(snapshot, diff) == [snapshot |-> snapshot, diff |-> diff]

\* quorum_snapshot_list.into_iter().zip(mn_list_diff_list.into_iter())
ZipSteps(snapshots, diffs) ==
    [k \in 1..(IF Len(snapshots) < Len(diffs) THEN Len(snapshots) ELSE Len(diffs)) |->
        Step(Some(snapshots[k]), diffs[k])]

\* A faulty order of the cycle steps: the tip diff is applied first.
CycleStepsTipFirst(qr_info) ==
    <<Step(None, qr_info.mn_list_diff_tip),
      Step(Some(qr_info.quorum_snapshot_at_h_minus_3c), qr_info.mn_list_diff_at_h_minus_3c),
      Step(Some(qr_info.quorum_snapshot_at_h_minus_2c), qr_info.mn_list_diff_at_h_minus_2c),
      Step(Some(qr_info.quorum_snapshot_at_h_minus_c), qr_info.mn_list_diff_at_h_minus_c),
      Step(None, qr_info.mn_list_diff_h)>>

\* feed_qr_info: the steps after last_commitment_entries.clear(), in code order.
CycleSteps(qr_info) ==
    LET h_minus_4c == qr_info.quorum_snapshot_and_mn_list_diff_at_h_minus_4c
    IN  (IF IsSome(h_minus_4c)
         THEN <<Step(Some(Unwrap(h_minus_4c)[1]), Unwrap(h_minus_4c)[2])>>
         ELSE << >>)
        \o <<Step(Some(qr_info.quorum_snapshot_at_h_minus_3c),
                  qr_info.mn_list_diff_at_h_minus_3c),
             Step(Some(qr_info.quorum_snapshot_at_h_minus_2c),
                  qr_info.mn_list_diff_at_h_minus_2c),
             Step(Some(qr_info.quorum_snapshot_at_h_minus_c),
                  qr_info.mn_list_diff_at_h_minus_c),
             Step(None, qr_info.mn_list_diff_h),
             Step(None, qr_info.mn_list_diff_tip)>>

\* Runs the steps in order and stops at the first failing apply_diff.  applied
\* lists the block hashes of the diffs handed to apply_diff so far.
RECURSIVE RunSteps(_, _)
RunSteps(r, steps) ==
    IF ~r.ok \/ steps = << >> THEN r
    ELSE
    LET step == Head(steps)
        stored == IF IsSome(step.snapshot)
                  THEN [r.engine EXCEPT !.known_snapshots =
                            MapPut(@, step.diff.block_hash, Unwrap(step.snapshot))]
                  ELSE r.engine
    IN  Let1(apply_diff(stored, step.diff, None, FALSE), LAMBDA result :
             RunSteps([ok |-> result.ok, err |-> result.err, engine |-> result.engine,
                       applied |-> Append(r.applied, step.diff.block_hash)],
                      Tail(steps)))

\* A faulty status lookup: the default status whatever the map holds.
StatusDefault(validation_statuses, quorum_hash) == Status("Unknown", "")

\* feed_qr_info: statuses looked up by quorum hash, Unknown when absent.
StatusFor(validation_statuses, quorum_hash) ==
    IF HasKey(validation_statuses, quorum_hash) THEN validation_statuses[quorum_hash]
    ELSE Status("Unknown", "")

\* A result of the callback phase, no diff handed to apply_diff yet.
NoneApplied(r) == [ok |-> r.ok, err |-> r.err, engine |-> r.engine, applied |-> << >>]

\* feed_qr_info: last_commitment_entries as the call leaves it.
StoreCommitments(e, cycle, qualified_last_commitment_per_index, verify_rotated_quorums) ==
    IF ~verify_rotated_quorums
    THEN [cycle EXCEPT !.engine.last_commitment_entries = qualified_last_commitment_per_index]
    ELSE Let1(validate_rotation_cycle_quorums_validation_statuses(
                  e, qualified_last_commitment_per_index), LAMBDA validation :
         IF validation.panic THEN [cycle EXCEPT !.ok = FALSE, !.err = "Panic"]
         ELSE [cycle EXCEPT !.engine.last_commitment_entries =
                [k \in DOMAIN qualified_last_commitment_per_index |->
                    [qualified_last_commitment_per_index[k] EXCEPT !.verified =
                        StatusFor(validation.statuses,
                                  qualified_last_commitment_per_index[k]
                                      .quorum_entry.quorum_hash)]]])

\* MasternodeListEngine::feed_qr_info; the callbacks are None or Some(map).
feed_qr_info(e, qr_info, verify_rotated_quorums, fetch_block_height, fetch_chain_lock_sigs) ==
    Let1(IF IsSome(fetch_block_height)
         THEN request_qr_info_block_heights(e, qr_info, Unwrap(fetch_block_height))
         ELSE Done(e), LAMBDA heights :
    IF ~heights.ok THEN NoneApplied(heights) ELSE
    Let1(IF IsSome(fetch_chain_lock_sigs)
         THEN request_qr_info_cl_sigs(heights.engine, qr_info, Unwrap(fetch_chain_lock_sigs))
         ELSE heights, LAMBDA cl_sigs :
    IF ~cl_sigs.ok THEN NoneApplied(cl_sigs) ELSE
    Let1(RunSteps(NoneApplied(cl_sigs),
                  ZipSteps(qr_info.quorum_snapshot_list, qr_info.mn_list_diff_list)),
         LAMBDA listed :
    IF ~listed.ok THEN listed ELSE
    Let1(RunSteps([listed EXCEPT !.engine.last_commitment_entries = << >>],
                  CycleSteps(qr_info)), LAMBDA cycle :
    IF ~cycle.ok THEN cycle ELSE
    StoreCommitments(cycle.engine, cycle,
                     [k \in DOMAIN qr_info.last_commitment_per_index |->
                        QualifiedQuorumEntry(qr_info.last_commitment_per_index[k])],
                     verify_rotated_quorums)))))

----------------------------------------------------------------------------
(* The inputs explored.  Host chain: block hash 0 is the genesis block       *)
(* (height 0); hashes 10, 9, 1, 2, 3, 4, 5, 6, 7 are the blocks at heights   *)
(* 4, 8, 16, 40, 64, 88, 96, 97, 100; hash 8 is a block the host does not    *)
(* know.  With interval 24 the cycle based at 96 has the work heights 88,    *)
(* 64, 40 and 16.                                                            *)

\* fetch_block_height of the host
HostHeights ==
    [b \in {0, 1, 2, 3, 4, 5, 6, 7, 9, 10} |->
        CASE b = 0 -> 0 [] b = 10 -> 4 [] b = 9 -> 8 [] b = 1 -> 16 [] b = 2 -> 40
          [] b = 3 -> 64 [] b = 4 -> 88 [] b = 5 -> 96 [] b = 6 -> 97 [] OTHER -> 100]

\* fetch_chain_lock_sigs of the host: the ChainLock signatures it has.
HostChainLocks == [b \in {3, 4} |-> b + 20]

MnA == MasternodeListEntry(2, 1, Some(1), OperatorKey(1, "basic"), TRUE, "Regular")

MnB == MasternodeListEntry(2, 2, Some(1), OperatorKey(2, "basic"), TRUE, "Regular")

\* An entry of version 2 whose operator key bytes are in the legacy scheme.
MnC == MasternodeListEntry(2, 3, Some(1), OperatorKey(3, "legacy"), TRUE, "Regular")

MnD == MasternodeListEntry(2, 6, Some(1), OperatorKey(4, "basic"), FALSE, "Regular")

MnE == MasternodeListEntry(1, 7, Some(1), OperatorKey(5, "legacy"), TRUE, "HighPerformance")

\* QuorumEntry without signatures
QuorumEntry(llmq_type, quorum_hash, quorum_index, signers, valid_members, public_key) ==
    [version |-> IF IsSome(quorum_index) THEN 2 ELSE 1, llmq_type |-> llmq_type,
     quorum_hash |-> quorum_hash, quorum_index |-> quorum_index, signers |-> signers,
     valid_members |-> valid_members, quorum_public_key |-> public_key,
     quorum_vvec_hash |-> 1, threshold_sig |-> ZeroSig,
     all_commitment_aggregated_signature |-> ZeroSig]

\* The commitment q as the quorum key and the operators with the given keys
\* (in ascending order) sign it.
SignedBy(q, keys) ==
    [q EXCEPT !.threshold_sig = ThresholdSig(q.quorum_public_key, calculate_commitment_hash(q)),
              !.all_commitment_aggregated_signature =
                    AggSig(keys, calculate_commitment_hash(q))]

AllMns == <<MnA, MnB, MnC, MnD, MnE>>

\* MnD registered again with another operator key.
MnD2 == MasternodeListEntry(2, 6, Some(1), OperatorKey(6, "basic"), FALSE, "Regular")

\* Non-rotating commitments for block 5 (height 96).  On the network "Dash"
\* the list at height 88 gives them the members MnA, MnB, MnC in this order.
\* Signed by MnA and MnB, whose bits are the ones set.
QGood == SignedBy(QuorumEntry("LlmqtypeTest", 5, None, <<TRUE, TRUE, FALSE>>,
                              <<TRUE, TRUE, TRUE>>, 3), <<1, 2>>)

\* All three bits set, aggregated over the keys of MnA and MnB only.
QThreeSigners == SignedBy(QuorumEntry("LlmqtypeTestInstantSend", 5, None,
                                      <<TRUE, TRUE, TRUE>>, <<TRUE, TRUE, TRUE>>, 3), <<1, 2>>)

\* Bitsets of four bits for a quorum of three: bits 0 and 3 set, signed by MnA.
QLongBitset == SignedBy(QuorumEntry("LlmqtypeTest", 5, None, <<TRUE, FALSE, FALSE, TRUE>>,
                                    <<TRUE, TRUE, TRUE, TRUE>>, 3), <<1>>)

\* A commitment for block 4 (height 88): the list at height 80 is needed.
QNoList == SignedBy(QuorumEntry("LlmqtypeTestInstantSend", 4, None, <<TRUE, TRUE, FALSE>>,
                                <<TRUE, TRUE, TRUE>>, 3), <<1, 2>>)

\* A commitment for block 8, which nobody knows.
QNoBlock == SignedBy(QuorumEntry("LlmqtypeTestInstantSend", 8, None, <<TRUE, TRUE, FALSE>>,
                                 <<TRUE, TRUE, TRUE>>, 3), <<1, 2>>)

\* Rotating commitments of the cycle based at height 96 (blocks 5 and 6).  On
\* "Dash" the members are MnE, MnB, MnA, MnC at index 0 and MnB, MnC, MnA, MnE
\* at index 1; MnA, MnB and MnE sign.
QRot0 == SignedBy(QuorumEntry("LlmqtypeTestDIP0024", 5, Some(0),
                              <<TRUE, TRUE, TRUE, FALSE>>, <<TRUE, TRUE, TRUE, TRUE>>, 3),
                  <<1, 2, 5>>)

QRot1 == SignedBy(QuorumEntry("LlmqtypeTestDIP0024", 6, Some(1),
                              <<TRUE, FALSE, TRUE, TRUE>>, <<TRUE, TRUE, TRUE, TRUE>>, 4),
                  <<1, 2, 5>>)

\* One signer bit only.
QFewSigners == SignedBy(QuorumEntry("LlmqtypeTestDIP0024", 6, Some(1),
                                    <<TRUE, FALSE, FALSE, FALSE>>,
                                    <<TRUE, TRUE, TRUE, TRUE>>, 4), <<2>>)

\* Diffs from the genesis block
DiffG88 == MnListDiff(0, 4, <<11>>, << >>, AllMns, << >>, << >>)

DiffG16 == MnListDiff(0, 1, <<11>>, << >>, AllMns, << >>, << >>)

DiffG8 == MnListDiff(0, 9, <<11>>, << >>, <<MnA, MnB>>, << >>, << >>)

DiffG4 == MnListDiff(0, 10, <<11>>, << >>, <<MnA>>, << >>, << >>)

DiffG100 == MnListDiff(0, 7, <<11>>, << >>, AllMns, << >>, <<QGood, QNoBlock>>)

\* Incremental diffs along the chain
Diff12 == MnListDiff(1, 2, <<12>>, <<6>>, << >>, << >>, << >>)

Diff23 == MnListDiff(2, 3, <<13>>, << >>, <<MnD2>>, << >>, << >>)

Diff34 == MnListDiff(3, 4, <<14>>, << >>, << >>, << >>, << >>)

Diff47 == MnListDiff(4, 7, <<15>>, << >>, << >>, << >>, <<QGood, QThreeSigners, QNoBlock>>)

Diff47b == MnListDiff(4, 7, <<15>>, <<6>>, <<MnD2>>,
                      <<[llmq_type |-> "LlmqtypeTest", quorum_hash |-> 5]>>,
                      <<QLongBitset, QNoList, QRot0>>)

Diff57 == MnListDiff(5, 7, <<15>>, << >>, <<MnD2>>, << >>, << >>)

SnapshotNoSkipping == QuorumSnapshot("NoSkipping", <<TRUE, FALSE, TRUE, FALSE>>, << >>)

SnapshotSkipFirst == QuorumSnapshot("SkipFirst", <<FALSE, TRUE, TRUE, FALSE>>, <<1>>)

SnapshotSkipExcept == QuorumSnapshot("SkipExcept", <<TRUE, TRUE, FALSE, FALSE>>, <<2, 0>>)

SnapshotSkipAll == QuorumSnapshot("SkipAll", << >>, << >>)

\* The rotation data of the cycle based at height 96.
QRInfoCycle ==
    QRInfo(SnapshotSkipExcept, SnapshotSkipFirst, SnapshotNoSkipping,
           Diff47b, Diff34, Diff23, Diff12, DiffG16, None, <<QRot0, QRot1>>, << >>, << >>)

\* The same with an h-4c pair, two listed snapshots for one listed diff, and
\* one commitment with too few signers.
QRInfoListed ==
    QRInfo(SnapshotSkipExcept, SnapshotSkipFirst, SnapshotNoSkipping,
           Diff47b, Diff34, Diff23, Diff12, DiffG16,
           Some(<<SnapshotSkipAll, DiffG8>>), <<QFewSigners>>,
           <<SnapshotSkipFirst, SnapshotSkipAll>>, <<DiffG4>>)

\* The calls of initialize_with_diff_to_height: the diff and its height.
InitInputs == {<<DiffG88, 88>>, <<DiffG16, 16>>}

FeedHeights == {88, 96}

FeedHashes == {4, 5}

ChainLockFeeds == {<<4, 24>>}

ApplyDiffs == {Diff47, Diff47b, Diff57, DiffG100}

EndHeights == {None, Some(100)}

QRInfos == {QRInfoCycle, QRInfoListed}

\* The callbacks handed to feed_qr_info: none, the height callback alone, both.
Callbacks == {<<None, None>>, <<Some(HostHeights), None>>,
              <<Some(HostHeights), Some(HostChainLocks)>>}

VerifyHeights == {88, 100}

ExcludeSets == {{}, {"LlmqtypeTest"}}

----------------------------------------------------------------------------
(* The state machine: one engine, one action per public operation.  last    *)
(* records the last call: its name, arguments and result.                   *)

\* The engine the variables hold.
Self == Engine(block_hashes, block_heights, masternode_lists, known_chain_locks,
               known_snapshots, last_commitment_entries, network)

\* The variables become the fields of e.
Becomes(e) ==
    /\ block_hashes' = e.block_hashes
    /\ block_heights' = e.block_heights
    /\ masternode_lists' = e.masternode_lists
    /\ known_chain_locks' = e.known_chain_locks
    /\ known_snapshots' = e.known_snapshots
    /\ last_commitment_entries' = e.last_commitment_entries
    /\ network' = e.network

Call(op, args, result, applied) ==
    [op |-> op, args |-> args, ok |-> result.ok, err |-> result.err, applied |-> applied]

\* The base of the diff is what apply_diff takes for the genesis hash.
FromStart(e, diff) ==
    LET genesis == IF IsSome(known_genesis_block_hash(e.network))
                   THEN known_genesis_block_hash(e.network)
                   ELSE MapGet(e.block_hashes, 0)
    IN  IsSome(genesis) /\ diff.base_block_hash = Unwrap(genesis)

Init ==
    \E input \in InitInputs, net \in Networks :
        \E result \in {initialize_with_diff_to_height(input[1], input[2], net)} :
            /\ result.ok
            /\ block_hashes = result.engine.block_hashes
            /\ block_heights = result.engine.block_heights
            /\ masternode_lists = result.engine.masternode_lists
            /\ known_chain_locks = result.engine.known_chain_locks
            /\ known_snapshots = result.engine.known_snapshots
            /\ last_commitment_entries = result.engine.last_commitment_entries
            /\ network = result.engine.network
            /\ ops = 0
            /\ last = Call("initialize_with_diff_to_height",
                           [diff |-> input[1], block_height |-> input[2]], result, << >>)

FeedBlockHeight ==
    /\ ops < MaxOps
    /\ \E height \in FeedHeights, block_hash \in FeedHashes :
        /\ \E e \in {feed_block_height(Self, height, block_hash)} : Becomes(e)
        /\ last' = Call("feed_block_height", [height |-> height, block_hash |-> block_hash],
                        Ok, << >>)
    /\ ops' = ops + 1

FeedChainLockSig ==
    /\ ops < MaxOps
    /\ \E feed \in ChainLockFeeds :
        /\ \E e \in {feed_chain_lock_sig(Self, feed[1], feed[2])} : Becomes(e)
        /\ last' = Call("feed_chain_lock_sig",
                        [block_hash |-> feed[1], chain_lock_sig |-> feed[2]], Ok, << >>)
    /\ ops' = ops + 1

\* An apply_diff that records the end height it was given before it fails.
ApplyDiffRecordingHeight ==
    /\ ops < MaxOps
    /\ \E diff \in ApplyDiffs, diff_end_height \in EndHeights, verify_quorums \in BOOLEAN :
        \E result \in {apply_diff(Self, diff, diff_end_height, verify_quorums)} :
            /\ Becomes(IF ~result.ok /\ IsSome(diff_end_height)
                       THEN feed_block_height(result.engine, Unwrap(diff_end_height),
                                              diff.block_hash)
                       ELSE result.engine)
            /\ last' = Call("apply_diff",
                            [diff |-> diff, diff_end_height |-> diff_end_height,
                             verify_quorums |-> verify_quorums,
                             from_start |-> FromStart(Self, diff)],
                            result, << >>)
    /\ ops' = ops + 1

ApplyDiff ==
    /\ ops < MaxOps
    /\ \E diff \in ApplyDiffs, diff_end_height \in EndHeights, verify_quorums \in BOOLEAN :
        \E result \in {apply_diff(Self, diff, diff_end_height, verify_quorums)} :
            /\ Becomes(result.engine)
            /\ last' = Call("apply_diff",
                            [diff |-> diff, diff_end_height |-> diff_end_height,
                             verify_quorums |-> verify_quorums,
                             from_start |-> FromStart(Self, diff)],
                            result, << >>)
    /\ ops' = ops + 1

FeedQRInfo ==
    /\ ops < MaxOps
    /\ \E qr_info \in QRInfos, verify_rotated_quorums \in BOOLEAN, callbacks \in Callbacks :
        \E result \in {feed_qr_info(Self, qr_info, verify_rotated_quorums,
                                     callbacks[1], callbacks[2])} :
            /\ Becomes(result.engine)
            /\ last' = Call("feed_qr_info",
                            [qr_info |-> qr_info,
                             verify_rotated_quorums |-> verify_rotated_quorums,
                             fetch_block_height |-> IsSome(callbacks[1]),
                             fetch_chain_lock_sigs |-> IsSome(callbacks[2]),
                             prior |-> Len(last_commitment_entries)],
                            result, result.applied)
    /\ ops' = ops + 1

VerifyMasternodeListQuorums ==
    /\ ops < MaxOps
    /\ \E block_height \in VerifyHeights, exclude_quorum_types \in ExcludeSets :
        \E result \in {verify_masternode_list_quorums(Self, block_height,
                                                       exclude_quorum_types)} :
            /\ Becomes(result.engine)
            /\ last' = Call("verify_masternode_list_quorums",
                            [block_height |-> block_height,
                             exclude_quorum_types |-> exclude_quorum_types],
                            result, << >>)
    /\ ops' = ops + 1

Next ==
    \/ FeedBlockHeight
    \/ FeedChainLockSig
    \/ ApplyDiff
    \/ FeedQRInfo
    \/ VerifyMasternodeListQuorums

Spec == Init /\ [][Next]_vars

----------------------------------------------------------------------------
(* QuorumEntry::validate_structure as a pure function: a second              *)
(* specification draws one commitment and applies the function to it.        *)

\* Longest bitset drawn.
MaxBits == 3

Bitsets == UNION {[1..n -> BOOLEAN] : n \in 0..MaxBits}

\* The commitments drawn: every pair of bitsets, zeroed or set key and signatures.
StructureInputs ==
    {[QuorumEntry("LlmqtypeTest", 5, None, signers, valid_members, public_key)
        EXCEPT !.threshold_sig = threshold_sig,
               !.all_commitment_aggregated_signature = aggregated] :
        signers \in Bitsets, valid_members \in Bitsets, public_key \in {0, 3},
        threshold_sig \in {ZeroSig, ThresholdSig(3, << >>)},
        aggregated \in {ZeroSig, AggSig(<<1>>, << >>)}}

InitVS ==
    /\ block_hashes = EmptyMap
    /\ block_heights = EmptyMap
    /\ masternode_lists = EmptyMap
    /\ known_chain_locks = EmptyMap
    /\ known_snapshots = EmptyMap
    /\ last_commitment_entries = << >>
    /\ network = "Dash"
    /\ ops = 0
    /\ \E q \in StructureInputs : last = Call("QuorumEntry", [quorum_entry |-> q], Ok, << >>)

ValidateStructure ==
    /\ last.op = "QuorumEntry"
    /\ last' = Call("validate_structure", last.args,
                    validate_structure(last.args.quorum_entry), << >>)
    /\ ops' = ops + 1
    /\ UNCHANGED engine_vars

SpecVS == InitVS /\ [][ValidateStructure]_vars

----------------------------------------------------------------------------
(* MasternodeList::apply_diff as a pure function: a third specification      *)
(* draws a list and a diff on it and applies the diff.                       *)

\* Longest list of deleted and of new masternodes drawn.
MaxChanges == 2

\* Longest list of deleted and of new quorums drawn.
MaxQuorumChanges == 1

SeqsUpTo(S, n) == UNION {[1..k -> S] : k \in 0..n}

\* The map a set of entries makes, keyed as InsertMasternodes keys it.
MasternodesOf(entries) ==
    [key \in {Reverse(entry.pro_reg_tx_hash) : entry \in entries} |->
        QualifiedMasternodeListEntry(
            CHOOSE entry \in entries : Reverse(entry.pro_reg_tx_hash) = key)]

\* The quorums map a set of commitments makes; the entries are verified.
QuorumsOf(entries) ==
    [llmq_type \in {q.llmq_type : q \in entries} |->
        [quorum_hash \in {q.quorum_hash : q \in {e \in entries : e.llmq_type = llmq_type}} |->
            [QualifiedQuorumEntry(CHOOSE q \in entries :
                    q.llmq_type = llmq_type /\ q.quorum_hash = quorum_hash)
                EXCEPT !.verified = Status("Verified", "")]]]

\* The lists drawn: the list of block 4 at height 88.
BaseLists ==
    {MasternodeList_new(MasternodesOf(mns), QuorumsOf(qs), 4, 88, TRUE) :
        mns \in SUBSET {MnA, MnB, MnD}, qs \in SUBSET {QGood, QNoList, QNoBlock}}

\* The diffs drawn, from block 4 to block 7.
ListDiffs ==
    {MnListDiff(4, 7, <<15>>, deleted_mns, new_mns, deleted_qs, new_qs) :
        deleted_mns \in SeqsUpTo({1, 6}, MaxChanges),
        new_mns \in SeqsUpTo({MnB, MnD2}, MaxChanges),
        deleted_qs \in SeqsUpTo({[llmq_type |-> "LlmqtypeTest", quorum_hash |-> 5],
                                 [llmq_type |-> "LlmqtypeTestInstantSend", quorum_hash |-> 8]},
                                MaxQuorumChanges),
        new_qs \in SeqsUpTo({QLongBitset, QNoBlock}, MaxQuorumChanges)}

InitAD ==
    /\ block_hashes = EmptyMap
    /\ block_heights = EmptyMap
    /\ masternode_lists = EmptyMap
    /\ known_chain_locks = EmptyMap
    /\ known_snapshots = EmptyMap
    /\ last_commitment_entries = << >>
    /\ network = "Dash"
    /\ ops = 0
    /\ \E list \in BaseLists, diff \in ListDiffs :
          \/ last = Call("MasternodeList", [list |-> list, diff |-> diff], Ok, << >>)
          \/ last = Call("MnListDiff", [diff |-> [diff EXCEPT !.base_block_hash = 0]],
                         Ok, << >>)

\* list.apply_diff(diff, 100); the list returned is kept at height 100.
ApplyDiffToList ==
    /\ last.op = "MasternodeList"
    /\ \E result \in {MasternodeList_apply_diff(last.args.list, last.args.diff, 100)} :
        /\ masternode_lists' = MapPut(masternode_lists, 100, result.list)
        /\ last' = Call("MasternodeList::apply_diff", last.args, result, << >>)
    /\ ops' = ops + 1
    /\ UNCHANGED <<block_hashes, block_heights, known_chain_locks, known_snapshots,
                   last_commitment_entries, network>>

\* MasternodeList::try_from_with_block_hash_lookup(diff, |_| Some(100), Dash);
\* the list returned is kept at height 100.
TryFromDiff ==
    /\ last.op = "MnListDiff"
    /\ \E result \in {try_from_with_block_hash_lookup(last.args.diff, Some(100), network)} :
        /\ masternode_lists' = IF result.ok THEN MapPut(masternode_lists, 100, result.list)
                                ELSE masternode_lists
        /\ last' = Call("try_from_with_block_hash_lookup", last.args, result, << >>)
    /\ ops' = ops + 1
    /\ UNCHANGED <<block_hashes, block_heights, known_chain_locks, known_snapshots,
                   last_commitment_entries, network>>

NextAD ==
    \/ ApplyDiffToList
    \/ TryFromDiff

SpecAD == InitAD /\ [][NextAD]_vars

----------------------------------------------------------------------------
(* apply_skip_strategy_of_type with a SkipFirst snapshot as a pure function: *)
(* a fourth specification draws the skip list, the split of six candidates   *)
(* into unused and used ones, the modifier and the sizes.                    *)

\* Longest skip list drawn.
MaxSkipLen == 3

\* Largest entry of a skip list drawn.
MaxSkip == 2

\* Candidates drawn: masternodes 1 to this number.
Candidates == 6

\* The masternode with ProRegTx hash k: valid, confirmed.
CandidateEntry(k) ==
    MasternodeListEntry(2, k, Some(1), OperatorKey(k, "basic"), TRUE, "Regular")

Candidate(k) == QualifiedMasternodeListEntry(CandidateEntry(k))

SkipFirstInputs ==
    {[snapshot |-> QuorumSnapshot("SkipFirst", << >>, skip_list),
      unused_at_h_masternodes |-> [k \in 1..unused |-> Candidate(k)],
      used_at_h_masternodes |-> [k \in 1..(Candidates - unused) |-> Candidate(unused + k)],
      quorum_modifier |-> quorum_modifier,
      quorum_count |-> quorum_count,
      quarter_size |-> quarter_size] :
        skip_list \in SeqsUpTo(0..MaxSkip, MaxSkipLen), unused \in 0..Candidates,
        quorum_modifier \in {0, 1}, quorum_count \in {1, 2}, quarter_size \in {1, 2}}

InitSF ==
    /\ block_hashes = EmptyMap
    /\ block_heights = EmptyMap
    /\ masternode_lists = EmptyMap
    /\ known_chain_locks = EmptyMap
    /\ known_snapshots = EmptyMap
    /\ last_commitment_entries = << >>
    /\ network = "Dash"
    /\ ops = 0
    /\ \E input \in SkipFirstInputs : last = Call("QuorumSnapshot", input, Ok, << >>)

\* apply_skip_strategy_of_type(Snapshot(snapshot), used, unused, modifier,
\* quorum_count, quarter_size); applied holds the quarters returned.
ApplySkipStrategy ==
    /\ last.op = "QuorumSnapshot"
    /\ \E result \in {apply_skip_strategy_of_type(
                        [kind |-> "Snapshot", snapshot |-> last.args.snapshot],
                        last.args.used_at_h_masternodes, last.args.unused_at_h_masternodes,
                        last.args.quorum_modifier, last.args.quorum_count,
                        last.args.quarter_size)} :
          last' = Call("apply_skip_strategy_of_type", last.args, result, result.quarters)
    /\ ops' = ops + 1
    /\ UNCHANGED engine_vars

SpecSF == InitSF /\ [][ApplySkipStrategy]_vars

----------------------------------------------------------------------------
(* The New reconstruction (usage_info, then apply_skip_strategy_of_type) as  *)
(* a pure function: a fifth specification draws the three previous quarters  *)
(* of two quorum indices, the list at the work block and the quarter size.   *)

\* The masternodes 1 to this number may be members of the previous quarters.
MaxPrev == 2

\* A quarter at one index: no member or one.
PreviousQuarters == [1..2 -> SeqsUpTo({Candidate(k) : k \in 1..MaxPrev}, 1)]

\* The list at the work block holds the masternodes up to this number.
WorkCandidates == 4

\* The lists drawn: masternode 1 valid, invalid or absent, the others valid.
WorkLists ==
    {MasternodeList_new(MasternodesOf(first \cup {CandidateEntry(k) : k \in 2..WorkCandidates}),
                        EmptyMap, 4, 88, TRUE) :
        first \in {{CandidateEntry(1)}, {[CandidateEntry(1) EXCEPT !.is_valid = FALSE]}, {}}}

NewQuarterInputs ==
    {[list |-> list, previous_quarters |-> <<q_h_m_c, q_h_m_2c, q_h_m_3c>>,
      quorum_modifier |-> 0, quorum_count |-> 2, quarter_size |-> quarter_size] :
        list \in WorkLists, q_h_m_c \in PreviousQuarters, q_h_m_2c \in PreviousQuarters,
        q_h_m_3c \in PreviousQuarters, quarter_size \in {1, 2}}

InitNQ ==
    /\ block_hashes = EmptyMap
    /\ block_heights = EmptyMap
    /\ masternode_lists = EmptyMap
    /\ known_chain_locks = EmptyMap
    /\ known_snapshots = EmptyMap
    /\ last_commitment_entries = << >>
    /\ network = "Dash"
    /\ ops = 0
    /\ \E input \in NewQuarterInputs : last = Call("New", input, Ok, << >>)

\* The New branch of quorum_quarter_members_by_reconstruction_type on the
\* list drawn; applied holds the quarters returned.
ApplyNewStrategy ==
    /\ last.op = "New"
    /\ \E info \in {usage_info(last.args.list, last.args.previous_quarters,
                               last.args.quorum_count)} :
        \E result \in {apply_skip_strategy_of_type(
                          [kind |-> "New", used_indexed |-> info.used_indexed],
                          info.used, info.unused, last.args.quorum_modifier,
                          last.args.quorum_count, last.args.quarter_size)} :
            last' = Call("quorum_quarter_members_by_reconstruction_type", last.args,
                         result, result.quarters)
    /\ ops' = ops + 1
    /\ UNCHANGED engine_vars

SpecNQ == InitNQ /\ [][ApplyNewStrategy]_vars

----------------------------------------------------------------------------
(* MasternodeList::valid_masternodes_for_quorum as a pure function: a sixth  *)
(* specification draws the list, the commitment's LLMQ type, the work block  *)
(* and the network.                                                          *)

\* The lists drawn hold masternodes among 1 to this number.
PoolSize == 6

\* The masternode with ProRegTx hash k: 4 is not valid, 5 has no confirmed
\* hash, the even ones are HighPerformance.
PoolEntry(k) ==
    MasternodeListEntry(2, k, IF k = 5 THEN None ELSE Some(1), OperatorKey(k, "basic"),
                        k # 4, IF k % 2 = 0 THEN "HighPerformance" ELSE "Regular")

MemberInputs ==
    {[list |-> MasternodeList_new(MasternodesOf({PoolEntry(k) : k \in held}), EmptyMap,
                                  work_block_hash, 88, TRUE),
      quorum |-> QualifiedQuorumEntry(
                    QuorumEntry(llmq_type, 5, None, <<TRUE, TRUE, TRUE>>,
                                <<TRUE, TRUE, TRUE>>, 3)),
      network |-> net] :
        held \in SUBSET (1..PoolSize), work_block_hash \in {3, 4},
        llmq_type \in {"LlmqtypeTest", "LlmqtypeTestInstantSend"}, net \in Networks}

InitVM ==
    /\ block_hashes = EmptyMap
    /\ block_heights = EmptyMap
    /\ masternode_lists = EmptyMap
    /\ known_chain_locks = EmptyMap
    /\ known_snapshots = EmptyMap
    /\ last_commitment_entries = << >>
    /\ ops = 0
    /\ \E input \in MemberInputs :
        /\ network = input.network
        /\ last = Call("MasternodeList", input, Ok, << >>)

\* list.valid_masternodes_for_quorum(quorum, modifier, network) with the
\* modifier of the list's block before v20; applied holds the members.
ValidMasternodesForQuorum ==
    /\ last.op = "MasternodeList"
    /\ \E members \in {valid_masternodes_for_quorum(
                          last.args.list, last.args.quorum,
                          new_quorum_modifier_type(last.args.quorum.quorum_entry.llmq_type,
                                                   last.args.list.block_hash, 0, EmptyMap,
                                                   network),
                          network)} :
          last' = Call("valid_masternodes_for_quorum", last.args, Ok, members)
    /\ ops' = ops + 1
    /\ UNCHANGED engine_vars

SpecVM == InitVM /\ [][ValidMasternodesForQuorum]_vars

----------------------------------------------------------------------------
(* MasternodeListEngine::required_cl_sig_heights as a pure function: a       *)
(* seventh specification draws the heights of the quorum blocks and the      *)
(* rotated commitments of the QRInfo.                                        *)

\* The commitments drawn carry a quorum_index from 0 to this number.
MaxIndex == 2

\* The QRInfos drawn carry at most this many commitments.
MaxCommitments == 2

\* A rotated commitment for the block quorum_hash with the given index.
RotatedCommitment(quorum_hash, quorum_index) ==
    QuorumEntry("LlmqtypeTestDIP0024", quorum_hash, Some(quorum_index),
                <<TRUE, TRUE, TRUE, TRUE>>, <<TRUE, TRUE, TRUE, TRUE>>, 3)

\* The engine knows the heights of blocks 5 and 6 (fed with
\* feed_block_height); the QRInfo carries commitments for them.
ClSigInputs ==
    {[heights |-> <<height_5, height_6>>,
      qr_info |-> [QRInfoCycle EXCEPT !.last_commitment_per_index = commitments]] :
        height_5 \in {96, 97, 120}, height_6 \in {98, 121, 122},
        commitments \in SeqsUpTo({RotatedCommitment(quorum_hash, quorum_index) :
                                     quorum_hash \in {5, 6}, quorum_index \in 0..MaxIndex},
                                 MaxCommitments)}

InitCL ==
    /\ masternode_lists = EmptyMap
    /\ known_chain_locks = EmptyMap
    /\ known_snapshots = EmptyMap
    /\ last_commitment_entries = << >>
    /\ ops = 0
    /\ network \in Networks
    /\ \E input \in ClSigInputs :
        /\ \E e \in {feed_block_height(
                        feed_block_height(
                            Engine(EmptyMap, EmptyMap, EmptyMap, EmptyMap, EmptyMap, << >>,
                                   network),
                            input.heights[1], 5),
                        input.heights[2], 6)} :
              /\ block_hashes = e.block_hashes
              /\ block_heights = e.block_heights
        /\ last = Call("QRInfo", [qr_info |-> input.qr_info], Ok, << >>)

\* self.required_cl_sig_heights(&qr_info); applied holds the heights.
RequiredClSigHeights ==
    /\ last.op = "QRInfo"
    /\ \E required \in {required_cl_sig_heights(Self, last.args.qr_info)} :
          last' = Call("required_cl_sig_heights", last.args, required, required.heights)
    /\ ops' = ops + 1
    /\ UNCHANGED engine_vars

SpecCL == InitCL /\ [][RequiredClSigHeights]_vars

----------------------------------------------------------------------------
(* MasternodeListEngine::validate_rotation_cycle_quorums as a pure function: *)
(* an eighth specification draws the commitments handed to it, for an engine *)
(* that holds the data of two cycles.                                        *)

\* The cycles validated hold at most this many commitments.
MaxCycleLen == 2

\* An engine with the lists and snapshots of the cycles based at heights 96
\* and 97: what initialize_with_diff_to_height, apply_diff and feed_qr_info
\* leave after the work blocks of both cycles have been ingested.  Blocks 5
\* and 6 are the quorum blocks at heights 96 and 97.
CycleEngine(net) ==
    LET heights == (16 :> 1) @@ (40 :> 2) @@ (64 :> 3) @@ (88 :> 4) @@ (96 :> 5)
                     @@ (97 :> 6) @@ (17 :> 11) @@ (41 :> 12) @@ (65 :> 13) @@ (89 :> 14)
        work == {16, 40, 64, 88, 17, 41, 65, 89}
    IN  Engine(heights,
               [block_hash \in Range(heights) |->
                    CHOOSE height \in DOMAIN heights : heights[height] = block_hash],
               [height \in work |->
                    MasternodeList_new(MasternodesOf(Range(AllMns)), EmptyMap,
                                       heights[height], height, TRUE)],
               EmptyMap,
               (1 :> SnapshotNoSkipping) @@ (2 :> SnapshotSkipFirst)
                 @@ (3 :> SnapshotSkipExcept) @@ (11 :> SnapshotSkipFirst)
                 @@ (12 :> SnapshotSkipExcept) @@ (13 :> SnapshotNoSkipping),
               << >>, net)

\* The rotated commitment for the block quorum_hash with the given index,
\* signed by the operators that the engine derives for the commitment for
\* signed_hash and signed_index.
CycleCommitment(e, quorum_hash, quorum_index, signed_hash, signed_index) ==
    LET commitment == RotatedCommitment(quorum_hash, quorum_index)
    IN  Let1(find_rotated_masternodes_for_quorum(
                e, QualifiedQuorumEntry(RotatedCommitment(signed_hash, signed_index))),
             LAMBDA derived :
        QualifiedQuorumEntry(
            SignedBy(commitment,
                     SortedBag(public_keys2(SigningEntries(derived.members,
                                                           commitment.signers, 1))))))

CycleCommitments(e) ==
    {CycleCommitment(e, quorum_hash, quorum_index, signed_hash, signed_index) :
        quorum_hash \in {5, 6}, quorum_index \in {0, 1},
        signed_hash \in {5, 6}, signed_index \in {0, 1}}

InitRC ==
    /\ network \in Networks
    /\ ops = 0
    /\ \E e \in {CycleEngine(network)} :
        /\ block_hashes = e.block_hashes
        /\ block_heights = e.block_heights
        /\ masternode_lists = e.masternode_lists
        /\ known_chain_locks = e.known_chain_locks
        /\ known_snapshots = e.known_snapshots
        /\ last_commitment_entries = e.last_commitment_entries
        /\ \E quorums \in SeqsUpTo(CycleCommitments(e), MaxCycleLen) :
              last = Call("QualifiedQuorumEntry", [quorums |-> quorums], Ok, << >>)

\* self.validate_rotation_cycle_quorums(&quorums)
ValidateRotationCycleQuorums ==
    /\ last.op = "QualifiedQuorumEntry"
    /\ \E result \in {validate_rotation_cycle_quorums(Self, last.args.quorums)} :
          last' = Call("validate_rotation_cycle_quorums", last.args, result, << >>)
    /\ ops' = ops + 1
    /\ UNCHANGED engine_vars

SpecRC == InitRC /\ [][ValidateRotationCycleQuorums]_vars

----------------------------------------------------------------------------
(* The quorum for an InstantSend lock request: a ninth specification draws   *)
(* the quorums of the list, the request id and the type.                     *)

\* [!0; 32]: the array of bytes 0xff.
AllOnes == 15

\* QualifiedQuorumEntry::ordering_hash_for_request_id: sha256d of the type,
\* the quorum hash and the request id; it is different for different quorum
\* hashes and never the array of bytes 0xff.
ordering_hash_for_request_id(entry, request_id) ==
    (TypeCode(entry.quorum_entry.llmq_type) + entry.quorum_entry.quorum_hash * 7
       + request_id * 2) % 15

\* reverse_cmp_sup: lhs above rhs, the last byte compared first.
reverse_cmp_sup(lhs, rhs) == Reverse(lhs) > Reverse(rhs)

\* A faulty loop: the ordering hashes compared as they are, not reversed.
RECURSIVE LowestOfEachUnreversed(_, _, _, _)
LowestOfEachUnreversed(entries, request_id, lowest_value, first_quorum) ==
    IF entries = << >> THEN first_quorum
    ELSE LET ordering_hash == ordering_hash_for_request_id(Head(entries), request_id)
         IN  IF lowest_value > ordering_hash
             THEN LowestOfEachUnreversed(Tail(entries), request_id, ordering_hash,
                                         Some(Head(entries)))
             ELSE LowestOfEachUnreversed(Tail(entries), request_id, lowest_value,
                                         first_quorum)

\* quorum_entry_for_lock_request_id: the for_each over the entries.
RECURSIVE LowestOfEach(_, _, _, _)
LowestOfEach(entries, request_id, lowest_value, first_quorum) ==
    IF entries = << >> THEN first_quorum
    ELSE LET ordering_hash == Reverse(ordering_hash_for_request_id(Head(entries), request_id))
         IN  IF lowest_value > ordering_hash
             THEN LowestOfEach(Tail(entries), request_id, ordering_hash, Some(Head(entries)))
             ELSE LowestOfEach(Tail(entries), request_id, lowest_value, first_quorum)

\* MasternodeList::quorum_entry_for_lock_request_id
quorum_entry_for_lock_request_id(list, request_id, llmq_type) ==
    IF ~HasKey(list.quorums, llmq_type) THEN None
    ELSE LowestOfEach(Values(list.quorums[llmq_type]), request_id, AllOnes, None)

\* ordered_quorums_for_is_lock: the fold into ordered_quorum_map; the pairs
\* of an entry and its reversed ordering hash, in the order of the entries.
OrderedQuorumMap(quorums_for_is, request_id) ==
    [i \in DOMAIN quorums_for_is |->
        [entry |-> quorums_for_is[i],
         hash |-> Reverse(ordering_hash_for_request_id(quorums_for_is[i], request_id))]]

\* slice::sort_by with the comparator of ordered_quorums_for_is_lock: Greater
\* if reverse_cmp_sup(hash1, hash2) and Less otherwise.
RECURSIVE SortByHash(_)
SortByHash(pairs) ==
    IF pairs = << >> THEN << >>
    ELSE LET sorted == SortByHash(SubSeq(pairs, 1, Len(pairs) - 1))
             x == pairs[Len(pairs)]
             above == {i \in DOMAIN sorted : reverse_cmp_sup(x.hash, sorted[i].hash)}
             n == IF above = {} THEN 0 ELSE CHOOSE i \in above : \A j \in above : j <= i
         IN  SubSeq(sorted, 1, n) \o <<x>> \o SubSeq(sorted, n + 1, Len(sorted))

\* MasternodeList::ordered_quorums_for_is_lock
ordered_quorums_for_is_lock(list, quorum_type, request_id) ==
    LET quorums_for_is == IF HasKey(list.quorums, quorum_type)
                          THEN Values(list.quorums[quorum_type]) ELSE << >>
        ordered_quorums == SortByHash(OrderedQuorumMap(quorums_for_is, request_id))
    IN  [i \in DOMAIN ordered_quorums |-> ordered_quorums[i].entry]

\* The lists drawn hold InstantSend quorums for the blocks 1 to this number.
PoolQuorums == 4

\* The request ids drawn go from 0 to this number.
MaxRequestId == 3

LockQuorum(llmq_type, quorum_hash) ==
    QuorumEntry(llmq_type, quorum_hash, None, <<TRUE, TRUE, FALSE>>, <<TRUE, TRUE, TRUE>>, 3)

LockInputs ==
    {[list |-> MasternodeList_new(EmptyMap, QuorumsOf(held), 4, 88, TRUE),
      request_id |-> request_id, llmq_type |-> llmq_type] :
        held \in SUBSET ({LockQuorum("LlmqtypeTestInstantSend", quorum_hash) :
                             quorum_hash \in 1..PoolQuorums}
                         \cup {LockQuorum("LlmqtypeTest", 5)}),
        request_id \in 0..MaxRequestId,
        llmq_type \in {"LlmqtypeTest", "LlmqtypeTestInstantSend"}}

InitIS ==
    /\ block_hashes = EmptyMap
    /\ block_heights = EmptyMap
    /\ masternode_lists = EmptyMap
    /\ known_chain_locks = EmptyMap
    /\ known_snapshots = EmptyMap
    /\ last_commitment_entries = << >>
    /\ ops = 0
    /\ network \in Networks
    /\ \E input \in LockInputs : last = Call("MasternodeList", input, Ok, << >>)

\* list.quorum_entry_for_lock_request_id(request_id, llmq_type)
QuorumEntryForLockRequestId ==
    /\ last.op = "MasternodeList"
    /\ \E first_quorum \in {quorum_entry_for_lock_request_id(
                               last.args.list, last.args.request_id, last.args.llmq_type)} :
          last' = Call("quorum_entry_for_lock_request_id", last.args, Ok, first_quorum)
    /\ ops' = ops + 1
    /\ UNCHANGED engine_vars

\* list.ordered_quorums_for_is_lock(llmq_type, request_id)
OrderedQuorumsForIsLock ==
    /\ last.op = "MasternodeList"
    /\ \E ordered \in {ordered_quorums_for_is_lock(
                          last.args.list, last.args.llmq_type, last.args.request_id)} :
          last' = Call("ordered_quorums_for_is_lock", last.args, Ok, ordered)
    /\ ops' = ops + 1
    /\ UNCHANGED engine_vars

NextIS == QuorumEntryForLockRequestId \/ OrderedQuorumsForIsLock

SpecIS == InitIS /\ [][NextIS]_vars

----------------------------------------------------------------------------
(* The merkle roots of util/hash.rs next to merkle_root_from_hashes: a tenth *)
(* specification draws the leaves.                                           *)

\* merkle_root_r: the for loop from idx on, writing hashes[idx] in place
\* (positions count from 0 in the code and from 1 here).
RECURSIVE PairInPlace(_, _)
PairInPlace(hashes, idx) ==
    IF idx >= (Len(hashes) + 1) \div 2 THEN hashes
    ELSE LET idx1 == 2 * idx
             idx2 == IF idx1 + 1 < Len(hashes) - 1 THEN idx1 + 1 ELSE Len(hashes) - 1
         IN  PairInPlace([hashes EXCEPT ![idx + 1] =
                             MerkleNode(hashes[idx1 + 1], hashes[idx2 + 1])],
                         idx + 1)

\* A faulty merkle_root_r: an unpaired last node goes up as it is.
RECURSIVE merkle_root_r_unpaired_as_is(_)
merkle_root_r_unpaired_as_is(hashes) ==
    IF Len(hashes) = 1 THEN hashes[1]
    ELSE merkle_root_r_unpaired_as_is(
            [i \in 1..((Len(hashes) + 1) \div 2) |->
                IF 2 * i <= Len(hashes) THEN MerkleNode(hashes[2 * i - 1], hashes[2 * i])
                ELSE hashes[2 * i - 1]])

\* merkle_root_r
RECURSIVE merkle_root_r(_)
merkle_root_r(hashes) ==
    IF Len(hashes) = 1 THEN hashes[1]
    ELSE LET half_len == (Len(hashes) \div 2) + (Len(hashes) % 2)
         IN  merkle_root_r(SubSeq(PairInPlace(hashes, 0), 1, half_len))

\* dash_merkle_root_inline
dash_merkle_root_inline(hashes) ==
    IF Len(hashes) = 0 THEN None
    ELSE IF Len(hashes) = 1 THEN Some(hashes[1])
    ELSE Some(merkle_root_r(hashes))

\* dash_merkle_root: the while loop that fills alloc from the iterator.
RECURSIVE FirstLevel(_, _)
FirstLevel(hashes, alloc) ==
    IF hashes = << >> THEN alloc
    ELSE LET hash1 == Head(hashes)
             hash2 == IF Len(hashes) > 1 THEN hashes[2] ELSE hash1
         IN  FirstLevel(SubSeq(hashes, 3, Len(hashes)), Append(alloc, MerkleNode(hash1, hash2)))

\* dash_merkle_root
dash_merkle_root(hashes) ==
    IF Len(hashes) = 0 THEN None
    ELSE IF Len(hashes) = 1 THEN Some(hashes[1])
    ELSE Some(merkle_root_r(FirstLevel(hashes, << >>)))

\* The leaves drawn are at most this many.
MaxLeaves == 5

\* The leaf hashes drawn.
LeafHashes == {1, 2, 3}

InitMR ==
    /\ block_hashes = EmptyMap
    /\ block_heights = EmptyMap
    /\ masternode_lists = EmptyMap
    /\ known_chain_locks = EmptyMap
    /\ known_snapshots = EmptyMap
    /\ last_commitment_entries = << >>
    /\ ops = 0
    /\ network = "Dash"
    /\ \E hashes \in SeqsUpTo(LeafHashes, MaxLeaves) :
          last = Call("hashes", [hashes |-> hashes], Ok, << >>)

\* Applies one of the three functions; applied holds what it returns.
Returns(op, root) ==
    /\ last.op = "hashes"
    /\ last' = Call(op, last.args, Ok, root)
    /\ ops' = ops + 1
    /\ UNCHANGED engine_vars

DashMerkleRoot == Returns("dash_merkle_root", dash_merkle_root(last.args.hashes))

DashMerkleRootInline ==
    Returns("dash_merkle_root_inline", dash_merkle_root_inline(last.args.hashes))

MerkleRootFromHashes ==
    Returns("merkle_root_from_hashes", merkle_root_from_hashes(last.args.hashes))

NextMR == DashMerkleRoot \/ DashMerkleRootInline \/ MerkleRootFromHashes

SpecMR == InitMR /\ [][NextMR]_vars

----------------------------------------------------------------------------
(* MasternodeList::hashes_for_merkle_root as a pure function: an eleventh    *)
(* specification draws the masternodes of the list.                          *)

LeafInputs ==
    {[list |-> MasternodeList_new(MasternodesOf({PoolEntry(k) : k \in held}), EmptyMap,
                                  4, 88, TRUE),
      block_height |-> block_height] :
        held \in SUBSET (1..PoolSize), block_height \in {88, 100, -1}}

InitML ==
    /\ block_hashes = EmptyMap
    /\ block_heights = EmptyMap
    /\ masternode_lists = EmptyMap
    /\ known_chain_locks = EmptyMap
    /\ known_snapshots = EmptyMap
    /\ last_commitment_entries = << >>
    /\ ops = 0
    /\ network \in Networks
    /\ \E input \in LeafInputs : last = Call("MasternodeList", input, Ok, << >>)

\* list.hashes_for_merkle_root(block_height); -1 stands for u32::MAX.
HashesForMerkleRoot ==
    /\ last.op = "MasternodeList"
    /\ \E hashes \in {hashes_for_merkle_root(last.args.list.masternodes,
                                             last.args.block_height)} :
          last' = Call("hashes_for_merkle_root", last.args, Ok, hashes)
    /\ ops' = ops + 1
    /\ UNCHANGED engine_vars

SpecML == InitML /\ [][HashesForMerkleRoot]_vars

----------------------------------------------------------------------------
(* The wire format of QuorumEntry, QuorumCommitmentPayload and              *)
(* QuorumSnapshot: a twelfth specification draws a value or a byte string   *)
(* and encodes, decodes and sizes it.  A byte is a number in 0..255, a      *)
(* fixed-width array is the sequence of its bytes, and a reader is a byte   *)
(* string with the position of the next byte to read.                       *)

\* v.consensus_encode(w) of an unsigned integer of width bytes: little-endian.
EncodeLE(v, width) == [i \in 1..width |-> (v \div (256 ^ (i - 1))) % 256]

RECURSIVE DecodeLE(_, _, _)
\* The unsigned little-endian integer in the width bytes from pos on.
DecodeLE(bytes, pos, width) ==
    IF width = 0 THEN 0
    ELSE bytes[pos] + 256 * DecodeLE(bytes, pos + 1, width - 1)

\* An i16 as the u16 with the same two bytes, and back.
I16AsU16(v) == IF v < 0 THEN v + 65536 ELSE v

U16AsI16(v) == IF v >= 32768 THEN v - 65536 ELSE v

\* The outcome of a read: the value and the position after it, or a failure.
ReadOk(value, next) == [ok |-> TRUE, value |-> <<value>>, next |-> next]

ReadErr == [ok |-> FALSE, value |-> << >>, next |-> 0]

\* Whether k more bytes can be read at pos.
Avail(bytes, pos, k) == pos + k - 1 <= Len(bytes)

\* Reads an unsigned integer of width bytes.
ReadLE(bytes, pos, width) ==
    IF Avail(bytes, pos, width)
    THEN ReadOk(DecodeLE(bytes, pos, width), pos + width)
    ELSE ReadErr

\* Reads a fixed-width array.
ReadArray(bytes, pos, width) ==
    IF Avail(bytes, pos, width)
    THEN ReadOk(SubSeq(bytes, pos, pos + width - 1), pos + width)
    ELSE ReadErr

\* compact_size_len(n): the number of bytes of the compact size n.
compact_size_len(n) ==
    IF n < 253 THEN 1 ELSE IF n <= 65535 THEN 3 ELSE 5

\* write_compact_size(w, n): below 0xFD inline, else 0xFD and a u16, else
\* 0xFE and a u32.
write_compact_size(n) ==
    IF n < 253 THEN <<n>>
    ELSE IF n <= 65535 THEN <<253>> \o EncodeLE(n, 2)
    ELSE <<254>> \o EncodeLE(n, 4)

\* Reads a u32 or u64 count.  A count of 2^24 or more is read as 2^24: every
\* byte string drawn is shorter, so that the read of that many elements fails
\* whatever the count.
ReadCount(bytes, pos, width) ==
    IF ~Avail(bytes, pos, width) THEN ReadErr
    ELSE IF \E i \in 3..(width - 1) : bytes[pos + i] # 0
         THEN ReadOk(16777216, pos + width)
         ELSE ReadOk(DecodeLE(bytes, pos, 3), pos + width)

\* read_compact_size(r).
read_compact_size(bytes, pos) ==
    IF ~Avail(bytes, pos, 1) THEN ReadErr
    ELSE IF bytes[pos] < 253 THEN ReadOk(bytes[pos], pos + 1)
    ELSE IF bytes[pos] = 253 THEN ReadLE(bytes, pos + 1, 2)
    ELSE IF bytes[pos] = 254 THEN ReadCount(bytes, pos + 1, 4)
    ELSE ReadCount(bytes, pos + 1, 8)

\* fixed_bitset_len(bits, size): ceil(size / 8).
fixed_bitset_len(bits, len) == (len + 7) \div 8

\* write_fixed_bitset(w, bits, size): ceil(size / 8) bytes, the bits
\* LSB-first within each byte.
write_fixed_bitset(bits, len) ==
    [b \in 1..((len + 7) \div 8) |->
        LET Bit(k) == IF 8 * (b - 1) + k + 1 <= Len(bits) /\ 8 * (b - 1) + k + 1 <= len
                         /\ bits[8 * (b - 1) + k + 1]
                      THEN 2 ^ k ELSE 0
        IN  Bit(0) + Bit(1) + Bit(2) + Bit(3) + Bit(4) + Bit(5) + Bit(6) + Bit(7)]

\* read_fixed_bitset(r, size): consumes ceil(size / 8) bytes.
read_fixed_bitset(bytes, pos, len) ==
    IF Avail(bytes, pos, (len + 7) \div 8)
    THEN ReadOk([i \in 1..len |->
                    (bytes[pos + ((i - 1) \div 8)] \div (2 ^ ((i - 1) % 8))) % 2 = 1],
                pos + ((len + 7) \div 8))
    ELSE ReadErr

\* LLMQType::consensus_decode: the type of the code byte.
ReadLLMQType(bytes, pos) ==
    IF Avail(bytes, pos, 1) /\ \E t \in LLMQTypes : TypeCode(t) = bytes[pos]
    THEN ReadOk(CHOOSE t \in LLMQTypes : TypeCode(t) = bytes[pos], pos + 1)
    ELSE ReadErr

\* Continues a read at the position the previous one ended at, as ? does.
Then(prev, Read(_)) == IF prev.ok THEN Read(prev.next) ELSE ReadErr

\* QuorumEntry::size.
QuorumEntry_size(self) ==
    2 + 1 + 32 + 48 + 32 + 96 + 96
    + compact_size_len(Len(self.signers))
    + fixed_bitset_len(self.signers, Len(self.signers))
    + compact_size_len(Len(self.valid_members))
    + fixed_bitset_len(self.valid_members, Len(self.valid_members))
    + (IF self.version = 2 \/ self.version = 4 THEN 2 ELSE 0)

\* <QuorumEntry as Encodable>::consensus_encode: the bytes written; the
\* length returned is their number.
QuorumEntry_consensus_encode(self) ==
    EncodeLE(self.version, 2)
    \o <<TypeCode(self.llmq_type)>>
    \o self.quorum_hash
    \o (IF IsSome(self.quorum_index) /\ (self.version = 2 \/ self.version = 4)
        THEN EncodeLE(I16AsU16(Unwrap(self.quorum_index)), 2)
        ELSE << >>)
    \o write_compact_size(Len(self.signers))
    \o write_fixed_bitset(self.signers, Len(self.signers))
    \o write_compact_size(Len(self.valid_members))
    \o write_fixed_bitset(self.valid_members, Len(self.valid_members))
    \o self.quorum_public_key
    \o self.quorum_vvec_hash
    \o self.threshold_sig
    \o self.all_commitment_aggregated_signature

\* <QuorumEntry as Decodable>::consensus_decode, reading from pos on.
QuorumEntry_consensus_decode(bytes, pos) ==
    LET version == ReadLE(bytes, pos, 2)
        llmq_type == Then(version, LAMBDA p : ReadLLMQType(bytes, p))
        quorum_hash == Then(llmq_type, LAMBDA p : ReadArray(bytes, p, 32))
        quorum_index ==
            Then(quorum_hash, LAMBDA p :
                IF Unwrap(version.value) = 2 \/ Unwrap(version.value) = 4
                THEN LET index == ReadLE(bytes, p, 2)
                     IN  IF index.ok
                         THEN ReadOk(Some(U16AsI16(Unwrap(index.value))), index.next)
                         ELSE ReadErr
                ELSE ReadOk(None, p))
        signers_count == Then(quorum_index, LAMBDA p : read_compact_size(bytes, p))
        signers == Then(signers_count, LAMBDA p :
                        read_fixed_bitset(bytes, p, Unwrap(signers_count.value)))
        valid_members_count == Then(signers, LAMBDA p : read_compact_size(bytes, p))
        valid_members == Then(valid_members_count, LAMBDA p :
                        read_fixed_bitset(bytes, p, Unwrap(valid_members_count.value)))
        quorum_public_key == Then(valid_members, LAMBDA p : ReadArray(bytes, p, 48))
        quorum_vvec_hash == Then(quorum_public_key, LAMBDA p : ReadArray(bytes, p, 32))
        quorum_sig == Then(quorum_vvec_hash, LAMBDA p : ReadArray(bytes, p, 96))
        sig == Then(quorum_sig, LAMBDA p : ReadArray(bytes, p, 96))
    IN  IF sig.ok
        THEN ReadOk([version |-> Unwrap(version.value),
                     llmq_type |-> Unwrap(llmq_type.value),
                     quorum_hash |-> Unwrap(quorum_hash.value),
                     quorum_index |-> Unwrap(quorum_index.value),
                     signers |-> Unwrap(signers.value),
                     valid_members |-> Unwrap(valid_members.value),
                     quorum_public_key |-> Unwrap(quorum_public_key.value),
                     quorum_vvec_hash |-> Unwrap(quorum_vvec_hash.value),
                     threshold_sig |-> Unwrap(quorum_sig.value),
                     all_commitment_aggregated_signature |-> Unwrap(sig.value)],
                    sig.next)
        ELSE ReadErr

\* QuorumCommitmentPayload::size.
QuorumCommitmentPayload_size(self) == 2 + 4 + QuorumEntry_size(self.finalization_commitment)

\* <QuorumCommitmentPayload as Encodable>::consensus_encode.
QuorumCommitmentPayload_consensus_encode(self) ==
    EncodeLE(self.version, 2)
    \o EncodeLE(self.height, 4)
    \o QuorumEntry_consensus_encode(self.finalization_commitment)

\* MNSkipListMode as u32.
ModeIndex(mode) ==
    CASE mode = "NoSkipping" -> 0
      [] mode = "SkipFirst" -> 1
      [] mode = "SkipExcept" -> 2
      [] mode = "SkipAll" -> 3

\* <MNSkipListMode as Decodable>::consensus_decode.
ReadSkipListMode(bytes, pos) ==
    LET value == ReadLE(bytes, pos, 4)
    IN  IF value.ok /\ Unwrap(value.value) \in 0..3
        THEN ReadOk(CHOOSE mode \in {"NoSkipping", "SkipFirst", "SkipExcept", "SkipAll"} :
                        ModeIndex(mode) = Unwrap(value.value), value.next)
        ELSE ReadErr

RECURSIVE EncodeVecU32(_)
\* The elements of a Vec<u32>, each as four bytes.
EncodeVecU32(list) ==
    IF list = << >> THEN << >>
    ELSE EncodeLE(Head(list), 4) \o EncodeVecU32(Tail(list))

\* Vec<u32>::consensus_decode: the compact size of the length, then the
\* elements.
ReadVecU32(bytes, pos) ==
    LET count == read_compact_size(bytes, pos)
    IN  IF count.ok /\ Avail(bytes, count.next, 4 * Unwrap(count.value))
        THEN ReadOk([i \in 1..Unwrap(count.value) |->
                        DecodeLE(bytes, count.next + 4 * (i - 1), 4)],
                    count.next + 4 * Unwrap(count.value))
        ELSE ReadErr

\* <QuorumSnapshot as Encodable>::consensus_encode.
QuorumSnapshot_consensus_encode(self) ==
    EncodeLE(ModeIndex(self.skip_list_mode), 4)
    \o write_fixed_bitset(self.active_quorum_members, Len(self.active_quorum_members))
    \o write_compact_size(Len(self.skip_list))
    \o EncodeVecU32(self.skip_list)

\* <QuorumSnapshot as Decodable>::consensus_decode.
QuorumSnapshot_consensus_decode(bytes, pos) ==
    LET mn_skip_list_mode == ReadSkipListMode(bytes, pos)
        active_quorum_members_count ==
            Then(mn_skip_list_mode, LAMBDA p : read_compact_size(bytes, p))
        active_quorum_members ==
            Then(active_quorum_members_count, LAMBDA p :
                read_fixed_bitset(bytes, p, Unwrap(active_quorum_members_count.value)))
        mn_skip_list == Then(active_quorum_members, LAMBDA p : ReadVecU32(bytes, p))
    IN  IF mn_skip_list.ok
        THEN ReadOk([skip_list_mode |-> Unwrap(mn_skip_list_mode.value),
                     active_quorum_members |-> Unwrap(active_quorum_members.value),
                     skip_list |-> Unwrap(mn_skip_list.value)],
                    mn_skip_list.next)
        ELSE ReadErr

MaxWireBits == 9

\* The bitsets drawn: every length up to MaxWireBits, all bits set or every
\* third one.
WireBitsets == {[i \in 1..n |-> i % step = 0] : n \in 0..MaxWireBits, step \in {1, 3}}

\* A fixed-width array: its first byte, the others zero.
FixedBytes(first, width) == [i \in 1..width |-> IF i = 1 THEN first ELSE 0]

\* The commitments drawn: versions 1 to 4, each with and without an index.
WireEntries ==
    {[version |-> version, llmq_type |-> llmq_type, quorum_hash |-> FixedBytes(6, 32),
      quorum_index |-> quorum_index, signers |-> signers, valid_members |-> valid_members,
      quorum_public_key |-> FixedBytes(public_key, 48),
      quorum_vvec_hash |-> FixedBytes(1, 32), threshold_sig |-> FixedBytes(2, 96),
      all_commitment_aggregated_signature |-> FixedBytes(5, 96)] :
        version \in 1..4, llmq_type \in {"LlmqtypeTest", "LlmqtypeTestDIP0024"},
        quorum_index \in {None, Some(0), Some(1), Some(-1)},
        signers \in WireBitsets,
        valid_members \in {bits \in WireBitsets : Len(bits) \in {4, MaxWireBits}},
        public_key \in {0, 3}}

\* The payloads drawn.
WirePayloads ==
    {[version |-> header[1], height |-> header[2], finalization_commitment |-> entry] :
        header \in {<<0, 0>>, <<1, 70000>>},
        entry \in {e \in WireEntries : e.llmq_type = "LlmqtypeTest" /\ Len(e.signers) \in {5, 7}}}

\* The snapshots drawn.
WireSnapshots ==
    {[skip_list_mode |-> mode, active_quorum_members |-> active_quorum_members,
      skip_list |-> skip_list] :
        mode \in {"NoSkipping", "SkipFirst", "SkipExcept", "SkipAll"},
        active_quorum_members \in WireBitsets,
        skip_list \in SeqsUpTo({0, 1, 300}, 2)}

\* The byte strings drawn: a version, a type, a hash, two bytes of index or
\* none whatever the version, and the rest of a commitment.
WireStrings ==
    {EncodeLE(entry.version, 2) \o <<TypeCode(entry.llmq_type)>> \o entry.quorum_hash
        \o index
        \o SubSeq(QuorumEntry_consensus_encode(entry), 36,
                  Len(QuorumEntry_consensus_encode(entry))) :
        entry \in {e \in WireEntries : e.quorum_index = None /\ e.quorum_public_key[1] = 3},
        index \in {<< >>, <<1, 0>>, <<255, 255>>}}

InitWF ==
    /\ block_hashes = EmptyMap
    /\ block_heights = EmptyMap
    /\ masternode_lists = EmptyMap
    /\ known_chain_locks = EmptyMap
    /\ known_snapshots = EmptyMap
    /\ last_commitment_entries = << >>
    /\ ops = 0
    /\ network \in Networks
    /\ \/ \E entry \in WireEntries : last = Call("QuorumEntry", [entry |-> entry], Ok, << >>)
       \/ \E payload \in WirePayloads :
            last = Call("QuorumCommitmentPayload", [payload |-> payload], Ok, << >>)
       \/ \E snapshot \in WireSnapshots :
            last = Call("QuorumSnapshot", [snapshot |-> snapshot], Ok, << >>)
       \/ \E bytes \in WireStrings : last = Call("bytes", [bytes |-> bytes], Ok, << >>)

\* entry.size().
EntrySize ==
    /\ last.op = "QuorumEntry"
    /\ last' = Call("QuorumEntry::size", last.args, Ok, QuorumEntry_size(last.args.entry))
    /\ ops' = ops + 1
    /\ UNCHANGED engine_vars

\* entry.consensus_encode(w).
EntryEncode ==
    /\ last.op = "QuorumEntry"
    /\ \E bytes \in {QuorumEntry_consensus_encode(last.args.entry)} :
          last' = Call("QuorumEntry::consensus_encode", last.args, Ok, bytes)
    /\ ops' = ops + 1
    /\ UNCHANGED engine_vars

\* QuorumEntry::consensus_decode(r) on the bytes an entry was encoded to.
EntryDecode ==
    /\ last.op = "QuorumEntry::consensus_encode"
    /\ \E decoded \in {QuorumEntry_consensus_decode(last.applied, 1)} :
          last' = Call("QuorumEntry::consensus_decode",
                       [entry |-> last.args.entry, bytes |-> last.applied],
                       IF decoded.ok THEN Ok ELSE Err("encode::Error"), decoded)
    /\ ops' = ops + 1
    /\ UNCHANGED engine_vars

\* QuorumEntry::consensus_decode(r) on a byte string, and the decoded entry
\* encoded again.
BytesDecodeEncode ==
    /\ last.op = "bytes"
    /\ \E decoded \in {QuorumEntry_consensus_decode(last.args.bytes, 1)} :
          last' = Call("deserialize", last.args,
                       IF decoded.ok THEN Ok ELSE Err("encode::Error"),
                       IF decoded.ok
                       THEN [next |-> decoded.next,
                             bytes |-> QuorumEntry_consensus_encode(Unwrap(decoded.value))]
                       ELSE << >>)
    /\ ops' = ops + 1
    /\ UNCHANGED engine_vars

\* payload.size().
PayloadSize ==
    /\ last.op = "QuorumCommitmentPayload"
    /\ last' = Call("QuorumCommitmentPayload::size", last.args, Ok,
                    QuorumCommitmentPayload_size(last.args.payload))
    /\ ops' = ops + 1
    /\ UNCHANGED engine_vars

\* payload.consensus_encode(w).
PayloadEncode ==
    /\ last.op = "QuorumCommitmentPayload"
    /\ \E bytes \in {QuorumCommitmentPayload_consensus_encode(last.args.payload)} :
          last' = Call("QuorumCommitmentPayload::consensus_encode", last.args, Ok, bytes)
    /\ ops' = ops + 1
    /\ UNCHANGED engine_vars

\* snapshot.consensus_encode(w).
SnapshotEncode ==
    /\ last.op = "QuorumSnapshot"
    /\ \E bytes \in {QuorumSnapshot_consensus_encode(last.args.snapshot)} :
          last' = Call("QuorumSnapshot::consensus_encode", last.args, Ok, bytes)
    /\ ops' = ops + 1
    /\ UNCHANGED engine_vars

\* QuorumSnapshot::consensus_decode(r) on the bytes a snapshot was encoded to.
SnapshotDecode ==
    /\ last.op = "QuorumSnapshot::consensus_encode"
    /\ \E decoded \in {QuorumSnapshot_consensus_decode(last.applied, 1)} :
          last' = Call("QuorumSnapshot::consensus_decode",
                       [snapshot |-> last.args.snapshot, bytes |-> last.applied],
                       IF decoded.ok THEN Ok ELSE Err("encode::Error"), decoded)
    /\ ops' = ops + 1
    /\ UNCHANGED engine_vars

NextWF ==
    \/ EntrySize
    \/ EntryEncode
    \/ EntryDecode
    \/ BytesDecodeEncode
    \/ PayloadSize
    \/ PayloadEncode
    \/ SnapshotEncode
    \/ SnapshotDecode

SpecWF == InitWF /\ [][NextWF]_vars

----------------------------------------------------------------------------
(* The wire format of MasternodeListEntry in its two codecs,                *)
(* sml::masternode_list_entry and sml::entry: a thirteenth specification    *)
(* draws an entry and encodes and decodes it with each.                     *)

\* MasternodeType::Regular and MasternodeType::HighPerformance.
RegularType == [kind |-> "Regular", platform_http_port |-> 0, platform_node_id |-> << >>]

HighPerformanceType(platform_http_port, platform_node_id) ==
    [kind |-> "HighPerformance", platform_http_port |-> platform_http_port,
     platform_node_id |-> platform_node_id]

\* The outcome of an encoding: the bytes written, or the panic of
\* unimplemented!.
Written(bytes) == [ok |-> TRUE, bytes |-> bytes]

Panicked == [ok |-> FALSE, bytes |-> << >>]

\* <SocketAddr as Encodable>::consensus_encode: sixteen bytes with the IPv4
\* octets last, then the port with its bytes swapped, little-endian.
SocketAddr_consensus_encode(self) ==
    IF self.kind = "V4"
    THEN Written([i \in 1..12 |-> 0] \o self.octets
                 \o EncodeLE((self.port % 256) * 256 + (self.port \div 256), 2))
    ELSE Panicked

\* <SocketAddr as Decodable>::consensus_decode.
SocketAddr_consensus_decode(bytes, pos) ==
    LET ip_address == ReadArray(bytes, pos, 16)
        port == Then(ip_address, LAMBDA p : ReadLE(bytes, p, 2))
    IN  IF port.ok
        THEN ReadOk([kind |-> "V4", octets |-> SubSeq(Unwrap(ip_address.value), 13, 16),
                     port |-> (Unwrap(port.value) % 256) * 256
                              + (Unwrap(port.value) \div 256)],
                    port.next)
        ELSE ReadErr

\* bool::consensus_decode.
ReadBool(bytes, pos) ==
    IF Avail(bytes, pos, 1) THEN ReadOk(bytes[pos] # 0, pos + 1) ELSE ReadErr

\* The port and node id after the tag of a HighPerformance type.
ReadHighPerformance(bytes, pos) ==
    LET platform_http_port == ReadLE(bytes, pos, 2)
        platform_node_id == Then(platform_http_port, LAMBDA p : ReadArray(bytes, p, 20))
    IN  IF platform_node_id.ok
        THEN ReadOk(HighPerformanceType(Unwrap(platform_http_port.value),
                                        Unwrap(platform_node_id.value)),
                    platform_node_id.next)
        ELSE ReadErr

\* <MasternodeType as Encodable>::consensus_encode, with the tag written in
\* tag_width bytes: two in sml::masternode_list_entry, one in sml::entry.
MasternodeType_consensus_encode(self, tag_width) ==
    IF self.kind = "Regular"
    THEN EncodeLE(0, tag_width)
    ELSE EncodeLE(1, tag_width) \o EncodeLE(self.platform_http_port, 2)
         \o self.platform_node_id

\* <MasternodeType as Decodable>::consensus_decode, the same in both
\* modules: the tag is read as a u16.
MasternodeType_consensus_decode(bytes, pos) ==
    LET variant == ReadLE(bytes, pos, 2)
    IN  IF ~variant.ok THEN ReadErr
        ELSE IF Unwrap(variant.value) = 0 THEN ReadOk(RegularType, variant.next)
        ELSE IF Unwrap(variant.value) = 1 THEN ReadHighPerformance(bytes, variant.next)
        ELSE ReadErr

\* The fields of an entry before mn_type, which both codecs write alike
\* given the bytes of the confirmed hash.
EntryHead(self, confirmed_hash) ==
    EncodeLE(self.version, 2) \o self.pro_reg_tx_hash \o confirmed_hash
    \o SocketAddr_consensus_encode(self.service_address).bytes
    \o self.operator_public_key \o self.key_id_voting
    \o <<IF self.is_valid THEN 1 ELSE 0>>

\* <MasternodeListEntry as Encodable>::consensus_encode of
\* sml::masternode_list_entry.
MasternodeListEntry_consensus_encode(self) ==
    IF ~SocketAddr_consensus_encode(self.service_address).ok THEN Panicked
    ELSE Written(EntryHead(self, IF IsSome(self.confirmed_hash)
                                 THEN Unwrap(self.confirmed_hash)
                                 ELSE [i \in 1..32 |-> 0])
                 \o (IF self.version >= 2
                     THEN MasternodeType_consensus_encode(self.mn_type, 2)
                     ELSE << >>))

\* <MasternodeListEntry as Encodable>::consensus_encode of sml::entry.
entry_MasternodeListEntry_consensus_encode(self) ==
    IF ~SocketAddr_consensus_encode(self.service_address).ok THEN Panicked
    ELSE Written(EntryHead(self, self.confirmed_hash)
                 \o MasternodeType_consensus_encode(self.mn_type, 1))

\* The decoding both modules share; optional tells whether the confirmed
\* hash is an Option, None when all its bytes are zero.
DecodeEntry(bytes, pos, optional) ==
    LET version == ReadLE(bytes, pos, 2)
        pro_reg_tx_hash == Then(version, LAMBDA p : ReadArray(bytes, p, 32))
        confirmed_hash == Then(pro_reg_tx_hash, LAMBDA p : ReadArray(bytes, p, 32))
        service_address == Then(confirmed_hash, LAMBDA p : SocketAddr_consensus_decode(bytes, p))
        operator_public_key == Then(service_address, LAMBDA p : ReadArray(bytes, p, 48))
        key_id_voting == Then(operator_public_key, LAMBDA p : ReadArray(bytes, p, 20))
        is_valid == Then(key_id_voting, LAMBDA p : ReadBool(bytes, p))
        mn_type == Then(is_valid, LAMBDA p :
                        IF Unwrap(version.value) >= 2
                        THEN MasternodeType_consensus_decode(bytes, p)
                        ELSE ReadOk(RegularType, p))
    IN  IF mn_type.ok
        THEN ReadOk([version |-> Unwrap(version.value),
                     pro_reg_tx_hash |-> Unwrap(pro_reg_tx_hash.value),
                     confirmed_hash |->
                        IF ~optional THEN Unwrap(confirmed_hash.value)
                        ELSE IF Unwrap(confirmed_hash.value) = [i \in 1..32 |-> 0] THEN None
                        ELSE Some(Unwrap(confirmed_hash.value)),
                     service_address |-> Unwrap(service_address.value),
                     operator_public_key |-> Unwrap(operator_public_key.value),
                     key_id_voting |-> Unwrap(key_id_voting.value),
                     is_valid |-> Unwrap(is_valid.value),
                     mn_type |-> Unwrap(mn_type.value)],
                    mn_type.next)
        ELSE ReadErr

\* <MasternodeListEntry as Decodable>::consensus_decode of
\* sml::masternode_list_entry.
MasternodeListEntry_consensus_decode(bytes, pos) == DecodeEntry(bytes, pos, TRUE)

\* <MasternodeListEntry as Decodable>::consensus_decode of sml::entry.
entry_MasternodeListEntry_consensus_decode(bytes, pos) == DecodeEntry(bytes, pos, FALSE)

MaxEntryVersion == 3

\* The entries drawn, in the form of sml::masternode_list_entry: every
\* version up to MaxEntryVersion with every type, confirmed hashes absent,
\* present and present but zero, an IPv4 and an IPv6 address.
WireMnEntries ==
    {[version |-> version, pro_reg_tx_hash |-> FixedBytes(pro_reg_tx_hash, 32),
      confirmed_hash |-> confirmed_hash, service_address |-> service_address,
      operator_public_key |-> FixedBytes(3, 48), key_id_voting |-> FixedBytes(4, 20),
      is_valid |-> is_valid, mn_type |-> mn_type] :
        version \in 1..MaxEntryVersion, pro_reg_tx_hash \in {1, 2},
        confirmed_hash \in {None, Some(FixedBytes(1, 32)), Some(FixedBytes(0, 32))},
        service_address \in {[kind |-> "V4", octets |-> <<10, 0, 0, 1>>, port |-> 19999],
                             [kind |-> "V4", octets |-> <<127, 0, 0, 1>>, port |-> 256],
                             [kind |-> "V6", octets |-> <<0, 0, 0, 1>>, port |-> 256]},
        is_valid \in BOOLEAN,
        mn_type \in {RegularType, HighPerformanceType(443, FixedBytes(7, 20)),
                     HighPerformanceType(256, FixedBytes(0, 20))}}

\* The same entries in the form of sml::entry, whose confirmed hash is no
\* Option.
WireEntryEntries ==
    {[entry EXCEPT !.confirmed_hash = Unwrap(entry.confirmed_hash)] :
        entry \in {e \in WireMnEntries : IsSome(e.confirmed_hash)}}

InitME ==
    /\ block_hashes = EmptyMap
    /\ block_heights = EmptyMap
    /\ masternode_lists = EmptyMap
    /\ known_chain_locks = EmptyMap
    /\ known_snapshots = EmptyMap
    /\ last_commitment_entries = << >>
    /\ ops = 0
    /\ network \in Networks
    /\ \/ \E entry \in WireMnEntries :
            last = Call("masternode_list_entry::MasternodeListEntry", [entry |-> entry],
                        Ok, << >>)
       \/ \E entry \in WireEntryEntries :
            last = Call("entry::MasternodeListEntry", [entry |-> entry], Ok, << >>)

\* entry.consensus_encode(w) in sml::masternode_list_entry.
MnEntryEncode ==
    /\ last.op = "masternode_list_entry::MasternodeListEntry"
    /\ \E written \in {MasternodeListEntry_consensus_encode(last.args.entry)} :
          last' = Call("masternode_list_entry::consensus_encode", last.args,
                       IF written.ok THEN Ok ELSE Err("panic"), written)
    /\ ops' = ops + 1
    /\ UNCHANGED engine_vars

\* MasternodeListEntry::consensus_decode(r) in sml::masternode_list_entry on
\* the bytes an entry was encoded to.
MnEntryDecode ==
    /\ last.op = "masternode_list_entry::consensus_encode"
    /\ last.ok
    /\ \E decoded \in {MasternodeListEntry_consensus_decode(last.applied.bytes, 1)} :
          last' = Call("masternode_list_entry::consensus_decode",
                       [entry |-> last.args.entry, bytes |-> last.applied.bytes],
                       IF decoded.ok THEN Ok ELSE Err("encode::Error"), decoded)
    /\ ops' = ops + 1
    /\ UNCHANGED engine_vars

\* entry.consensus_encode(w) in sml::entry.
EntryEntryEncode ==
    /\ last.op = "entry::MasternodeListEntry"
    /\ \E written \in {entry_MasternodeListEntry_consensus_encode(last.args.entry)} :
          last' = Call("entry::consensus_encode", last.args,
                       IF written.ok THEN Ok ELSE Err("panic"), written)
    /\ ops' = ops + 1
    /\ UNCHANGED engine_vars

\* MasternodeListEntry::consensus_decode(r) in sml::entry on the bytes an
\* entry was encoded to.
EntryEntryDecode ==
    /\ last.op = "entry::consensus_encode"
    /\ last.ok
    /\ \E decoded \in {entry_MasternodeListEntry_consensus_decode(last.applied.bytes, 1)} :
          last' = Call("entry::consensus_decode",
                       [entry |-> last.args.entry, bytes |-> last.applied.bytes],
                       IF decoded.ok THEN Ok ELSE Err("encode::Error"), decoded)
    /\ ops' = ops + 1
    /\ UNCHANGED engine_vars

NextME ==
    \/ MnEntryEncode
    \/ MnEntryDecode
    \/ EntryEntryEncode
    \/ EntryEntryDecode

SpecME == InitME /\ [][NextME]_vars

----------------------------------------------------------------------------
(* QuorumEntry::calculate_commitment_hash as a pure function of two         *)
(* commitments: a fourteenth specification draws the pair and hashes both.  *)

\* The commitment whose ten fields take the first or the second of two
\* values each, as the ten bits of choice say.
ChosenEntry(choice) ==
    [version |-> choice[1] + 1,
     llmq_type |-> IF choice[2] = 0 THEN "LlmqtypeTest" ELSE "LlmqtypeTestDIP0024",
     quorum_hash |-> 5 + choice[3],
     quorum_index |-> IF choice[4] = 0 THEN None ELSE Some(1),
     signers |-> IF choice[5] = 0 THEN <<TRUE, TRUE, FALSE>> ELSE <<TRUE, FALSE, TRUE>>,
     valid_members |-> IF choice[6] = 0 THEN <<TRUE, TRUE, TRUE>> ELSE <<TRUE, TRUE, FALSE>>,
     quorum_public_key |-> 3 + choice[7],
     quorum_vvec_hash |-> 1 + choice[8],
     threshold_sig |-> IF choice[9] = 0 THEN ZeroSig ELSE ThresholdSig(3, << >>),
     all_commitment_aggregated_signature |->
        IF choice[10] = 0 THEN ZeroSig ELSE AggSig(<<1>>, << >>)]

\* The fields the commitment data is built from.
HashedFields == {2, 3, 6, 7, 8}

\* The pairs drawn: the first varies in the hashed fields, the second in all.
HashInputs ==
    {[first |-> ChosenEntry(x), second |-> ChosenEntry(y)] :
        x \in {c \in [1..10 -> {0, 1}] : \A i \in (1..10) \ HashedFields : c[i] = 0},
        y \in [1..10 -> {0, 1}]}

InitCH ==
    /\ block_hashes = EmptyMap
    /\ block_heights = EmptyMap
    /\ masternode_lists = EmptyMap
    /\ known_chain_locks = EmptyMap
    /\ known_snapshots = EmptyMap
    /\ last_commitment_entries = << >>
    /\ network = "Dash"
    /\ ops = 0
    /\ \E input \in HashInputs : last = Call("QuorumEntry", input, Ok, << >>)

\* first.calculate_commitment_hash() and second.calculate_commitment_hash().
CalculateCommitmentHash ==
    /\ last.op = "QuorumEntry"
    /\ last' = Call("calculate_commitment_hash", last.args, Ok,
                    <<calculate_commitment_hash(last.args.first),
                      calculate_commitment_hash(last.args.second)>>)
    /\ ops' = ops + 1
    /\ UNCHANGED engine_vars

SpecCH == InitCH /\ [][CalculateCommitmentHash]_vars

----------------------------------------------------------------------------
(* apply_skip_strategy_of_type in every mode as a pure function: a          *)
(* fifteenth specification draws the mode, the skip list, the candidates,   *)
(* none included, and the sizes, zero included.                             *)

\* Candidates drawn for a reconstruction: the first unused masternodes, then,
\* up to this total, the used ones.
QuarterCandidates == 4

\* Largest entry of a skip list drawn for a reconstruction.
QuarterMaxSkip == 3

\* The masternodes used at each of two quorum indices, for the New mode: none
\* or one of the first two candidates.
UsedIndexed == [1..2 -> SeqsUpTo({Candidate(k) : k \in 1..2}, 1)]

QuarterInputs ==
    {[skip_type |-> skip_type,
      unused_at_h_masternodes |-> [k \in 1..unused |-> Candidate(k)],
      used_at_h_masternodes |-> [k \in 1..(IF total > unused THEN total - unused ELSE 0) |->
                                    Candidate(unused + k)],
      quorum_modifier |-> 0,
      quorum_count |-> 2,
      quarter_size |-> quarter_size] :
        skip_type \in
            {[kind |-> "Snapshot", snapshot |-> QuorumSnapshot(mode, << >>, skip_list)] :
                mode \in {"NoSkipping", "SkipFirst", "SkipExcept", "SkipAll"},
                skip_list \in SeqsUpTo(0..QuarterMaxSkip, 2)}
            \cup {[kind |-> "New", used_indexed |-> used_indexed] :
                    used_indexed \in UsedIndexed},
        total \in 0..QuarterCandidates, unused \in 0..QuarterCandidates,
        quarter_size \in 0..2}

InitQR ==
    /\ block_hashes = EmptyMap
    /\ block_heights = EmptyMap
    /\ masternode_lists = EmptyMap
    /\ known_chain_locks = EmptyMap
    /\ known_snapshots = EmptyMap
    /\ last_commitment_entries = << >>
    /\ network = "Dash"
    /\ ops = 0
    /\ \E input \in QuarterInputs :
          last = Call("LLMQQuarterUsageType", input, Ok, << >>)

\* apply_skip_strategy_of_type(skip_type, used, unused, modifier,
\* quorum_count, quarter_size); applied holds the quarters returned.
ApplySkipStrategyOfType ==
    /\ last.op = "LLMQQuarterUsageType"
    /\ \E result \in {apply_skip_strategy_of_type(
                        last.args.skip_type,
                        last.args.used_at_h_masternodes, last.args.unused_at_h_masternodes,
                        last.args.quorum_modifier, last.args.quorum_count,
                        last.args.quarter_size)} :
          last' = Call("apply_skip_strategy_of_type", last.args, result, result.quarters)
    /\ ops' = ops + 1
    /\ UNCHANGED engine_vars

SpecQR == InitQR /\ [][ApplySkipStrategyOfType]_vars

----------------------------------------------------------------------------
(* The work heights of a rotated commitment as a pure function: a sixteenth  *)
(* specification draws the height of the quorum block and the quorum_index   *)
(* of the commitment, negative ones included.                                *)

\* The quorum block is drawn at heights 0 to this number.
MaxQuorumHeight == 100

\* The commitments drawn carry a quorum_index down to minus this number.
MaxNegativeIndex == 9

\* a - b in u32 falls below zero: the release build wraps, a build with
\* overflow checks panics.
SubU32Overflows(a, b) == LessU32(a, b)

\* The cycle base of find_rotated_masternodes_for_quorum(s) and the work
\* heights of masternode_list_entry_members_for_rotated_quorum for the indexes
\* 0 to 3, with whether one of the subtractions overflowed.
rotated_work_heights(quorum_llmq_type, quorum_block_height, quorum_index) ==
    LET cycle_base_height == SubU32(quorum_block_height, I16AsU32(quorum_index))
        cycle_length == interval(quorum_llmq_type)
    IN  [cycle_base_height |-> cycle_base_height,
         heights |-> [k \in 1..4 |->
                        work_block_height_for_index(quorum_llmq_type, cycle_base_height, k - 1)],
         overflowed |->
            \/ SubU32Overflows(quorum_block_height, I16AsU32(quorum_index))
            \/ \E index \in 0..3 :
                \/ SubU32Overflows(cycle_base_height, index * cycle_length)
                \/ SubU32Overflows(SubU32(cycle_base_height, index * cycle_length), 8)]

\* What the builds make of the computation: the wrapped heights, or a panic
\* where a subtraction overflowed.
WorkHeightOutcomes(work) ==
    {[ok |-> TRUE, err |-> "", work |-> work]}
    \cup (IF work.overflowed THEN {[ok |-> FALSE, err |-> "Panic", work |-> work]} ELSE {})

InitWH ==
    /\ masternode_lists = EmptyMap
    /\ known_chain_locks = EmptyMap
    /\ known_snapshots = EmptyMap
    /\ last_commitment_entries = << >>
    /\ ops = 0
    /\ network = "Dash"
    /\ \E quorum_block_height \in 0..MaxQuorumHeight,
          quorum_index \in (0 - MaxNegativeIndex)..MaxIndex :
        /\ \E e \in {feed_block_height(
                        Engine(EmptyMap, EmptyMap, EmptyMap, EmptyMap, EmptyMap, << >>,
                               network),
                        quorum_block_height, 5)} :
              /\ block_hashes = e.block_hashes
              /\ block_heights = e.block_heights
        /\ last = Call("QuorumEntry", [quorum |-> RotatedCommitment(5, quorum_index)],
                       Ok, << >>)

\* The heights find_rotated_masternodes_for_quorum reads for the commitment
\* and the heights required_cl_sig_heights names for it; applied holds both.
RotatedWorkHeights ==
    /\ last.op = "QuorumEntry"
    /\ \E outcome \in WorkHeightOutcomes(
                        rotated_work_heights(last.args.quorum.llmq_type,
                                             block_heights[last.args.quorum.quorum_hash],
                                             Unwrap(last.args.quorum.quorum_index))) :
          last' = Call("rotated_work_heights", last.args, outcome,
                       [cycle_base_height |-> outcome.work.cycle_base_height,
                        heights |-> outcome.work.heights,
                        overflowed |-> outcome.work.overflowed,
                        required |->
                            required_cl_sig_heights(
                                Self,
                                [QRInfoCycle EXCEPT !.last_commitment_per_index =
                                    <<last.args.quorum>>]).heights])
    /\ ops' = ops + 1
    /\ UNCHANGED engine_vars

SpecWH == InitWH /\ [][RotatedWorkHeights]_vars

----------------------------------------------------------------------------
(* validate_rotation_cycle_quorums_validation_statuses as a pure function:   *)
(* a seventeenth specification draws the batch, with commitments whose      *)
(* members the engine cannot derive.                                        *)

\* The batches drawn hold at most this many commitments.
MaxBatchLen == 2

\* Commitments whose members the engine of CycleEngine cannot derive: for a
\* block it does not know, without a quorum_index, and for a block whose
\* cycle it holds no list of.
UnderivableCommitments ==
    {QualifiedQuorumEntry(RotatedCommitment(7, 0)),
     QualifiedQuorumEntry([RotatedCommitment(5, 0) EXCEPT !.quorum_index = None]),
     QualifiedQuorumEntry(RotatedCommitment(4, 0))}

InitBS ==
    /\ network = "Dash"
    /\ ops = 0
    /\ \E e \in {CycleEngine(network)} :
        /\ block_hashes = e.block_hashes
        /\ block_heights = e.block_heights
        /\ masternode_lists = e.masternode_lists
        /\ known_chain_locks = e.known_chain_locks
        /\ known_snapshots = e.known_snapshots
        /\ last_commitment_entries = e.last_commitment_entries
        /\ \E quorums \in SeqsUpTo(CycleCommitments(e) \cup UnderivableCommitments,
                                   MaxBatchLen) :
              last = Call("QualifiedQuorumEntry", [quorums |-> quorums], Ok, << >>)

\* self.validate_rotation_cycle_quorums_validation_statuses(&quorums);
\* applied holds the statuses by quorum hash.
ValidationStatuses ==
    /\ last.op = "QualifiedQuorumEntry"
    /\ \E validation \in {validate_rotation_cycle_quorums_validation_statuses(
                            Self, last.args.quorums)} :
          last' = Call("validate_rotation_cycle_quorums_validation_statuses", last.args,
                       IF validation.panic THEN Err("Panic") ELSE Ok,
                       validation.statuses)
    /\ ops' = ops + 1
    /\ UNCHANGED engine_vars

SpecBS == InitBS /\ [][ValidationStatuses]_vars

----------------------------------------------------------------------------
(* Properties *)

\* C1: in every reachable engine state block_heights and block_hashes are
\* inverses of each other: block_heights[b] = h exactly when block_hashes[h] = b.
C1_HeightsAndHashesAreInverses ==
    /\ \A b \in DOMAIN block_heights :
          HasKey(block_hashes, block_heights[b]) /\ block_hashes[block_heights[b]] = b
    /\ \A h \in DOMAIN block_hashes :
          HasKey(block_heights, block_hashes[h]) /\ block_heights[block_hashes[h]] = h

\* The height apply_diff stores the list of diff under, read in the state the
\* call leaves.
StoredHeight(heights, args) ==
    IF IsSome(args.diff_end_height) THEN Unwrap(args.diff_end_height)
    ELSE heights[args.diff.block_hash]

\* C2: when apply_diff succeeds for a diff whose base is not the genesis hash,
\* the list stored has the diff's block_hash and is the update of a stored list
\* whose block_hash is the diff's base_block_hash; when the list found for the
\* base has another block_hash the call fails, with BaseBlockHashMismatch once
\* the end height is known, and masternode_lists is left as it was.
C2_ApplyDiffChainsToItsBase ==
    [][(last'.op = "apply_diff" /\ ~last'.args.from_start) =>
        LET diff == last'.args.diff
            found == /\ HasKey(block_heights, diff.base_block_hash)
                     /\ HasKey(masternode_lists, block_heights[diff.base_block_hash])
            base == masternode_lists[block_heights[diff.base_block_hash]]
            end_known == IsSome(last'.args.diff_end_height)
                         \/ HasKey(block_heights, diff.block_hash)
            stored == masternode_lists'[StoredHeight(block_heights', last'.args)]
        IN  /\ last'.ok =>
                /\ found
                /\ base.block_hash = diff.base_block_hash
                /\ stored.block_hash = diff.block_hash
                /\ stored.masternodes =
                      InsertMasternodes(RemoveMasternodes(base.masternodes,
                                                          diff.deleted_masternodes),
                                        diff.new_masternodes)
            /\ (found /\ base.block_hash # diff.base_block_hash) =>
                /\ ~last'.ok
                /\ masternode_lists' = masternode_lists
                /\ end_known => last'.err = "BaseBlockHashMismatch"]_vars

\* C2: apply_diff has stored the update of a non-genesis base.
C2_Witness ==
    /\ last.op = "apply_diff" /\ last.ok /\ ~last.args.from_start
    /\ masternode_lists[StoredHeight(block_heights, last.args)].block_hash
          = last.args.diff.block_hash

\* C3: every stored list L has block_heights[L.block_hash] = L.known_height.
C3_StoredListsAtTheirKnownHeight ==
    \A h \in DOMAIN masternode_lists :
        /\ HasKey(block_heights, masternode_lists[h].block_hash)
        /\ block_heights[masternode_lists[h].block_hash] = masternode_lists[h].known_height

\* The errors that tell that data validation needs is absent.
AbsentDataErrors ==
    {"RequiredBlockNotPresent", "RequiredMasternodeListNotPresent",
     "RequiredChainLockNotPresent"}

\* Every status the engine holds: of the quorums of the stored lists and of
\* the last commitment entries.
RecordedStatuses ==
    UNION {UNION {{masternode_lists[h].quorums[t][q].verified :
                        q \in DOMAIN masternode_lists[h].quorums[t]} :
                    t \in DOMAIN masternode_lists[h].quorums} :
            h \in DOMAIN masternode_lists}
    \cup {last_commitment_entries[k].verified : k \in DOMAIN last_commitment_entries}

\* C4: no recorded status is Invalid for absent data (unknown block, missing
\* list, missing ChainLock signature): such a quorum is Skipped.
C4_AbsentDataIsSkippedNeverInvalid ==
    \A status \in RecordedStatuses :
        status.tag = "Invalid" => status.why \notin AbsentDataErrors

\* The members validate_quorum signs over: derived for q in engine e, at the
\* positions whose signer bit is set.
SigningSet(e, q) ==
    Let1(find_valid_masternodes_for_quorum(e, QualifiedQuorumEntry(q)), LAMBDA masternodes :
         [ok |-> masternodes.ok,
          entries |-> SigningEntries(masternodes.members, q.signers, 1)])

\* The new quorums of the diff of an apply_diff step that verified them
\* against a non-genesis base, with the status the step stored for each.
VerifiedByStep(call, lists, heights) ==
    IF call.op = "apply_diff" /\ call.ok /\ call.args.verify_quorums /\ ~call.args.from_start
    THEN {[quorum_entry |-> q,
           verified |-> lists[StoredHeight(heights, call.args)]
                            .quorums[q.llmq_type][q.quorum_hash].verified] :
            q \in Range(call.args.diff.new_quorums)}
    ELSE {}

\* C5: a quorum is verified against the operator keys of exactly its signing
\* set: every signing member's key decodes and is among the keys, and no other
\* key is.
C5_VerifiedOverExactlyTheSigningSet ==
    [][\A new \in VerifiedByStep(last', masternode_lists', block_heights') :
        new.verified.tag = "Verified" =>
            Let1(SigningSet(Self, new.quorum_entry), LAMBDA signing :
                /\ signing.ok
                /\ \A i \in DOMAIN signing.entries : DecodesOperatorKey(signing.entries[i])
                /\ new.quorum_entry.all_commitment_aggregated_signature.keys
                      = SortedBag([i \in DOMAIN signing.entries |->
                                      signing.entries[i].operator_public_key.point]))]_vars

\* C6: validation fails when the signing set has fewer than threshold
\* elements, also when set signer bits have no member.
C6_VerifiedNeedsThresholdSigners ==
    [][\A new \in VerifiedByStep(last', masternode_lists', block_heights') :
        new.verified.tag = "Verified" =>
            Let1(SigningSet(Self, new.quorum_entry), LAMBDA signing :
                signing.ok /\ Len(signing.entries) >= threshold(new.quorum_entry.llmq_type))]_vars

\* The structural rule of the given name fails for commitment q.
RuleFails(q, rule) ==
    CASE rule = "MismatchedBitsetLengths" -> Len(q.signers) # Len(q.valid_members)
      [] rule = "InsufficientSigners" -> PopCount(q.signers) < threshold(q.llmq_type)
      [] rule = "InsufficientValidMembers" -> PopCount(q.valid_members) < threshold(q.llmq_type)
      [] rule = "InvalidQuorumPublicKey" -> q.quorum_public_key = 0
      [] rule = "InvalidQuorumSignature" -> q.threshold_sig = ZeroSig
      [] rule = "InvalidFinalSignature" -> q.all_commitment_aggregated_signature = ZeroSig

\* The first rule of the order that fails for q, "" when none does.
FirstFailedRule(q, order) ==
    IF \E i \in DOMAIN order : RuleFails(q, order[i])
    THEN order[Min({i \in DOMAIN order : RuleFails(q, order[i])})]
    ELSE ""

\* validate_structure has answered for the commitment drawn, with the first
\* failed rule of the order.
AnswersInOrder(order) ==
    last.op = "validate_structure" =>
        /\ last.err = FirstFailedRule(last.args.quorum_entry, order)
        /\ last.ok <=> last.err = ""

\* C7 as stated: validate_structure names the first failed rule in the order
\* bitset lengths, signers, valid members, public key, threshold signature,
\* aggregated signature.
C7_ErrorOfFirstRuleLengthsFirst ==
    AnswersInOrder(<<"MismatchedBitsetLengths", "InsufficientSigners",
                     "InsufficientValidMembers", "InvalidQuorumPublicKey",
                     "InvalidQuorumSignature", "InvalidFinalSignature">>)

\* C7 amended: validate_structure names the first failed rule in the order
\* signers, valid members, bitset lengths, public key, threshold signature,
\* aggregated signature.
C7_ErrorOfFirstRuleCountsFirst ==
    AnswersInOrder(<<"InsufficientSigners", "InsufficientValidMembers",
                     "MismatchedBitsetLengths", "InvalidQuorumPublicKey",
                     "InvalidQuorumSignature", "InvalidFinalSignature">>)

\* C7: bitsets of different lengths with too few signer bits, and every later
\* rule failing as well, are answered with InsufficientSigners.
C7_Witness ==
    /\ last.op = "validate_structure"
    /\ \A rule \in {"MismatchedBitsetLengths", "InsufficientSigners",
                    "InsufficientValidMembers", "InvalidQuorumPublicKey",
                    "InvalidQuorumSignature", "InvalidFinalSignature"} :
            RuleFails(last.args.quorum_entry, rule)
    /\ last.err = "InsufficientSigners"

\* C8: after apply_diff with verify_quorums returns Ok, no quorum of
\* diff.new_quorums is left at Skipped(NotMarkedForVerification) in the list
\* stored, whether the base is a stored list or the genesis hash.
C8_NewQuorumsCarryAVerdict ==
    (last.op = "apply_diff" /\ last.ok /\ last.args.verify_quorums) =>
        \A q \in Range(last.args.diff.new_quorums) :
            masternode_lists[StoredHeight(block_heights, last.args)]
                .quorums[q.llmq_type][q.quorum_hash].verified # NotMarkedForVerification

\* The pairs feed_qr_info is to ingest, in order: <<snapshot or None, diff>>.
IngestionOrder(qr_info) ==
    [k \in 1..Min({Len(qr_info.quorum_snapshot_list), Len(qr_info.mn_list_diff_list)}) |->
        <<Some(qr_info.quorum_snapshot_list[k]), qr_info.mn_list_diff_list[k]>>]
    \o (IF qr_info.quorum_snapshot_and_mn_list_diff_at_h_minus_4c = None THEN << >>
        ELSE <<<<Some(qr_info.quorum_snapshot_and_mn_list_diff_at_h_minus_4c[1][1]),
                 qr_info.quorum_snapshot_and_mn_list_diff_at_h_minus_4c[1][2]>>>>)
    \o <<<<Some(qr_info.quorum_snapshot_at_h_minus_3c), qr_info.mn_list_diff_at_h_minus_3c>>,
         <<Some(qr_info.quorum_snapshot_at_h_minus_2c), qr_info.mn_list_diff_at_h_minus_2c>>,
         <<Some(qr_info.quorum_snapshot_at_h_minus_c), qr_info.mn_list_diff_at_h_minus_c>>,
         <<None, qr_info.mn_list_diff_h>>,
         <<None, qr_info.mn_list_diff_tip>>>>

\* The errors apply_diff returns.
ApplyDiffErrors ==
    {"MissingStartMasternodeList", "BlockHashLookupFailed", "BaseBlockHashMismatch",
     "BaseBlockNotGenesis", "IncompleteMnListDiff"}

\* C9: feed_qr_info hands the diffs to apply_diff in the order listed pairs,
\* h-4c, h-3c, h-2c, h-c, h, tip; it stops at the first diff that fails and
\* returns its error; each snapshot is stored under the block_hash of its diff.
C9_IngestionOrder ==
    last.op = "feed_qr_info" =>
        Let1(IngestionOrder(last.args.qr_info), LAMBDA order :
            /\ Len(last.applied) <= Len(order)
            /\ \A k \in DOMAIN last.applied : last.applied[k] = order[k][2].block_hash
            /\ last.ok => Len(last.applied) = Len(order)
            /\ (~last.ok /\ last.applied # << >>) => last.err \in ApplyDiffErrors
            /\ \A k \in DOMAIN last.applied :
                  (/\ order[k][1] # None
                   /\ \A j \in DOMAIN last.applied :
                        (j > k /\ order[j][2].block_hash = order[k][2].block_hash)
                            => order[j][1] = None)
                  => /\ HasKey(known_snapshots, order[k][2].block_hash)
                     /\ known_snapshots[order[k][2].block_hash] = Unwrap(order[k][1]))

\* C9: feed_qr_info has applied a listed pair, the h-4c pair and the five
\* cycle diffs.
C9_Witness ==
    /\ last.op = "feed_qr_info" /\ last.ok
    /\ Len(last.applied) = 7
    /\ last.args.qr_info.quorum_snapshot_and_mn_list_diff_at_h_minus_4c # None

\* C10: after feed_qr_info returns Ok, last_commitment_entries holds the
\* qualified entry of each element of last_commitment_per_index and nothing
\* else, in the same order; with verify_rotated_quorums each status is the
\* verdict of rotation-cycle validation for the commitment's quorum, never
\* Unknown or Skipped(NotMarkedForVerification); without it every status is
\* Skipped(NotMarkedForVerification).
C10_LastCommitmentEntries ==
    (last.op = "feed_qr_info" /\ last.ok) =>
        Let1([k \in DOMAIN last.args.qr_info.last_commitment_per_index |->
                QualifiedQuorumEntry(last.args.qr_info.last_commitment_per_index[k])],
             LAMBDA qualified :
            /\ Len(last_commitment_entries) = Len(qualified)
            /\ \A k \in DOMAIN qualified :
                  [last_commitment_entries[k] EXCEPT !.verified = NotMarkedForVerification]
                      = qualified[k]
            /\ ~last.args.verify_rotated_quorums =>
                  \A k \in DOMAIN qualified :
                      last_commitment_entries[k].verified = NotMarkedForVerification
            /\ last.args.verify_rotated_quorums =>
                  Let1(validate_rotation_cycle_quorums_validation_statuses(Self, qualified),
                       LAMBDA verdicts :
                      \A k \in DOMAIN qualified :
                          /\ last_commitment_entries[k].verified
                                = verdicts.statuses[qualified[k].quorum_entry.quorum_hash]
                          /\ last_commitment_entries[k].verified.tag # "Unknown"
                          /\ last_commitment_entries[k].verified # NotMarkedForVerification))

\* C10: a verifying feed_qr_info has replaced two earlier entries by one.
C10_Witness ==
    /\ last.op = "feed_qr_info" /\ last.ok /\ last.args.verify_rotated_quorums
    /\ last.args.prior = 2
    /\ Len(last_commitment_entries) = 1

\* C11: a successful verify_masternode_list_quorums(height, exclude) changes
\* nothing of the list at height but quorum statuses; every quorum of a type
\* that is neither excluded nor rotating gets the verdict of validate_quorum
\* on that quorum, evaluated against the engine as it was when the call
\* began; every quorum of a rotating type that is not excluded and whose
\* quorum_hash is the one of an entry of last_commitment_entries gets that
\* entry's status.
C11_VerifyWritesVerdicts ==
    [][(last'.op = "verify_masternode_list_quorums" /\ last'.ok) =>
        LET before == masternode_lists[last'.args.block_height].quorums
            after == masternode_lists'[last'.args.block_height].quorums
            exclude == last'.args.exclude_quorum_types
        IN  /\ DOMAIN after = DOMAIN before
            /\ \A quorum_type \in DOMAIN before :
                /\ DOMAIN after[quorum_type] = DOMAIN before[quorum_type]
                /\ \A quorum_hash \in DOMAIN before[quorum_type] :
                    LET old == before[quorum_type][quorum_hash]
                        new == after[quorum_type][quorum_hash]
                    IN  /\ [new EXCEPT !.verified = old.verified] = old
                        /\ (quorum_type \notin exclude
                              /\ ~is_rotating_quorum_type(quorum_type)) =>
                                new.verified =
                                    update_quorum_status(old, validate_quorum(Self, old)).verified
                        /\ (quorum_type \notin exclude
                              /\ is_rotating_quorum_type(quorum_type)) =>
                                \A k \in DOMAIN last_commitment_entries :
                                    last_commitment_entries[k].quorum_entry.quorum_hash
                                        = quorum_hash
                                    => new.verified = last_commitment_entries[k].verified
    ]_vars

\* C11: a call has given a non-rotating quorum the verdict Verified and has
\* copied the status Verified of a last commitment entry to the rotating
\* quorum with its hash.
C11_Witness ==
    /\ last.op = "verify_masternode_list_quorums" /\ last.ok
    /\ last.args.exclude_quorum_types = {}
    /\ LET quorums == masternode_lists[last.args.block_height].quorums
       IN  /\ \E quorum_type \in DOMAIN quorums :
                /\ ~is_rotating_quorum_type(quorum_type)
                /\ \E quorum_hash \in DOMAIN quorums[quorum_type] :
                      quorums[quorum_type][quorum_hash].verified.tag = "Verified"
           /\ \E quorum_type \in DOMAIN quorums :
                /\ is_rotating_quorum_type(quorum_type)
                /\ \E k \in DOMAIN last_commitment_entries :
                    /\ last_commitment_entries[k].verified.tag = "Verified"
                    /\ HasKey(quorums[quorum_type],
                              last_commitment_entries[k].quorum_entry.quorum_hash)
                    /\ quorums[quorum_type]
                          [last_commitment_entries[k].quorum_entry.quorum_hash].verified
                            = last_commitment_entries[k].verified

\* The list b is the list a but for the statuses of its quorums.
SameButStatuses(a, b) ==
    /\ [b EXCEPT !.quorums = a.quorums] = a
    /\ DOMAIN b.quorums = DOMAIN a.quorums
    /\ \A quorum_type \in DOMAIN a.quorums :
        /\ DOMAIN b.quorums[quorum_type] = DOMAIN a.quorums[quorum_type]
        /\ \A quorum_hash \in DOMAIN a.quorums[quorum_type] :
              [b.quorums[quorum_type][quorum_hash] EXCEPT
                    !.verified = a.quorums[quorum_type][quorum_hash].verified]
                = a.quorums[quorum_type][quorum_hash]

\* C12: a stored masternode list is never changed in place: every engine
\* operation leaves every list stored before the call equal to what it was,
\* and a successful apply_diff stores its result under a height that held no
\* list before the call.
C12_StoredListsNeverChange ==
    [][/\ \A height \in DOMAIN masternode_lists :
            /\ HasKey(masternode_lists', height)
            /\ masternode_lists'[height] = masternode_lists[height]
       /\ (last'.op = "apply_diff" /\ last'.ok) =>
            ~HasKey(masternode_lists, StoredHeight(block_heights', last'.args))
    ]_vars

\* C12, as the code has it: no operation removes a stored list, and a stored
\* list changes only where verify_masternode_list_quorums rewrites the
\* statuses of the quorums of the list at its height, or where a successful
\* apply_diff, or a diff applied by feed_qr_info, stores its result under
\* the end height of the diff, replacing the list that height held.
C12_StoredListsChangeOnlyBy ==
    [][\A height \in DOMAIN masternode_lists :
        /\ HasKey(masternode_lists', height)
        /\ masternode_lists'[height] # masternode_lists[height] =>
            \/ /\ last'.op = "verify_masternode_list_quorums" /\ last'.ok
               /\ height = last'.args.block_height
               /\ SameButStatuses(masternode_lists[height], masternode_lists'[height])
            \/ /\ last'.op = "apply_diff" /\ last'.ok
               /\ height = StoredHeight(block_heights', last'.args)
               /\ masternode_lists'[height].block_hash = last'.args.diff.block_hash
            \/ /\ last'.op = "feed_qr_info"
               /\ masternode_lists'[height].block_hash \in Range(last'.applied)
               /\ masternode_lists'[height].known_height = height
    ]_vars

\* C12: verify_masternode_list_quorums has written verdicts into a stored
\* list whose quorums of the excluded type still are not marked.
C12_Witness ==
    /\ last.op = "verify_masternode_list_quorums" /\ last.ok
    /\ last.args.exclude_quorum_types = {"LlmqtypeTest"}
    /\ LET quorums == masternode_lists[last.args.block_height].quorums
       IN  /\ HasKey(quorums, "LlmqtypeTest")
           /\ \A quorum_hash \in DOMAIN quorums["LlmqtypeTest"] :
                 quorums["LlmqtypeTest"][quorum_hash].verified = NotMarkedForVerification
           /\ HasKey(quorums, "LlmqtypeTestInstantSend")
           /\ \A quorum_hash \in DOMAIN quorums["LlmqtypeTestInstantSend"] :
                 quorums["LlmqtypeTestInstantSend"][quorum_hash].verified
                    # NotMarkedForVerification

\* The last of the new masternodes of the diff stored under key.
LastNewMasternode(new_masternodes, key) ==
    new_masternodes[CHOOSE k \in DOMAIN new_masternodes :
        /\ Reverse(new_masternodes[k].pro_reg_tx_hash) = key
        /\ \A j \in DOMAIN new_masternodes :
              Reverse(new_masternodes[j].pro_reg_tx_hash) = key => j <= k]

\* C13: MasternodeList::apply_diff removes the deleted masternodes before it
\* inserts the new ones: the keys of the result are the keys of the base
\* without the reversed deleted hashes, together with the reversed hashes of
\* the new masternodes; a key of a new masternode holds the entry made from
\* it, also when the diff deletes that hash; every other key holds the entry
\* of the base unchanged.
C13_DeletedThenNewMasternodes ==
    (last.op = "MasternodeList::apply_diff" /\ last.ok) =>
        LET base == last.args.list.masternodes
            diff == last.args.diff
            deleted == {Reverse(h) : h \in Range(diff.deleted_masternodes)}
            added == {Reverse(mn.pro_reg_tx_hash) : mn \in Range(diff.new_masternodes)}
            result == masternode_lists[100].masternodes
        IN  /\ DOMAIN result = (DOMAIN base \ deleted) \cup added
            /\ \A key \in added :
                  result[key].masternode_list_entry
                      = LastNewMasternode(diff.new_masternodes, key)
            /\ \A key \in DOMAIN result \ added : result[key] = base[key]

\* C13: a diff has deleted and added the masternode 6 the base holds, and has
\* deleted the masternode 1 the base does not hold; masternode 2 is carried
\* over.
C13_Witness ==
    /\ last.op = "MasternodeList::apply_diff" /\ last.ok
    /\ DOMAIN last.args.list.masternodes = {Reverse(2), Reverse(6)}
    /\ last.args.diff.deleted_masternodes = <<6, 1>>
    /\ last.args.diff.new_masternodes = <<MnD2>>
    /\ DOMAIN masternode_lists[100].masternodes = {Reverse(2), Reverse(6)}
    /\ masternode_lists[100].masternodes[Reverse(6)].masternode_list_entry = MnD2

\* The pairs of LLMQ type and quorum hash a quorums map holds an entry for.
QuorumKeys(quorums) ==
    UNION {{<<llmq_type, quorum_hash>> : quorum_hash \in DOMAIN quorums[llmq_type]} :
            llmq_type \in DOMAIN quorums}

\* The last of the new quorums of the diff stored under key.
LastNewQuorum(new_quorums, key) ==
    new_quorums[CHOOSE k \in DOMAIN new_quorums :
        /\ <<new_quorums[k].llmq_type, new_quorums[k].quorum_hash>> = key
        /\ \A j \in DOMAIN new_quorums :
              <<new_quorums[j].llmq_type, new_quorums[j].quorum_hash>> = key => j <= k]

\* C14: no list built from a diff or by applying a diff has an empty LLMQ-type
\* bucket; after MasternodeList::apply_diff the quorums held are those of the
\* base without the deleted ones, together with the new ones (a bucket whose
\* last quorum is deleted is gone); a new quorum is held under
\* quorums[llmq_type][quorum_hash], also when the diff deletes it; every other
\* quorum keeps the entry and the verification status it has in the base.
C14_NoEmptyBucketAndUpserts ==
    /\ \A height \in DOMAIN masternode_lists :
          \A llmq_type \in DOMAIN masternode_lists[height].quorums :
              DOMAIN masternode_lists[height].quorums[llmq_type] # {}
    /\ (last.op = "MasternodeList::apply_diff" /\ last.ok) =>
        LET base == last.args.list.quorums
            diff == last.args.diff
            deleted == {<<d.llmq_type, d.quorum_hash>> : d \in Range(diff.deleted_quorums)}
            added == {<<q.llmq_type, q.quorum_hash>> : q \in Range(diff.new_quorums)}
            result == masternode_lists[100].quorums
        IN  /\ QuorumKeys(result) = (QuorumKeys(base) \ deleted) \cup added
            /\ \A key \in added :
                  result[key[1]][key[2]]
                      = QualifiedQuorumEntry(LastNewQuorum(diff.new_quorums, key))
            /\ \A key \in QuorumKeys(result) \ added :
                  result[key[1]][key[2]] = base[key[1]][key[2]]

\* C14: a diff has deleted the only quorum of type LlmqtypeTest and the
\* bucket is gone, while a verified quorum of another type is carried over.
C14_Witness ==
    /\ last.op = "MasternodeList::apply_diff" /\ last.ok
    /\ QuorumKeys(last.args.list.quorums)
          = {<<"LlmqtypeTest", 5>>, <<"LlmqtypeTestInstantSend", 4>>}
    /\ last.args.diff.deleted_quorums = <<[llmq_type |-> "LlmqtypeTest", quorum_hash |-> 5]>>
    /\ last.args.diff.new_quorums = << >>
    /\ DOMAIN masternode_lists[100].quorums = {"LlmqtypeTestInstantSend"}
    /\ masternode_lists[100].quorums["LlmqtypeTestInstantSend"][4].verified
          = Status("Verified", "")

\* C15: the single list held after initialize_with_diff_to_height(diff,
\* height, network) is the list MasternodeList::apply_diff gives for the same
\* diff and height on an empty list whose block_hash is the base of the
\* diff: the same masternodes, quorums, block_hash, known_height,
\* masternode_merkle_root and llmq_merkle_root.
C15_InitialListIsDiffOnEmptyList ==
    (last.op = "initialize_with_diff_to_height") =>
        LET diff == last.args.diff
            height == last.args.block_height
            empty == [NoList EXCEPT !.block_hash = diff.base_block_hash]
        IN  /\ DOMAIN masternode_lists = {height}
            /\ Let1(MasternodeList_apply_diff(empty, diff, height), LAMBDA applied :
                    applied.ok /\ masternode_lists[height] = applied.list)

\* C16: for every list the engine holds, a masternode_merkle_root that is
\* present is calculate_masternodes_merkle_root at the list's known_height
\* on the entries the list holds.
C16_StoredRootIsComputedRoot ==
    \A height \in DOMAIN masternode_lists :
        LET list == masternode_lists[height]
        IN  IsSome(list.masternode_merkle_root) =>
                list.masternode_merkle_root
                    = calculate_masternodes_merkle_root(list.masternodes, list.known_height)

\* The running prefix sums of a skip list: [x, y-x, z-y] gives x, y, z.
RECURSIVE PrefixSums(_, _)
PrefixSums(skip_list, sum) ==
    IF skip_list = << >> THEN << >>
    ELSE <<sum + Head(skip_list)>> \o PrefixSums(Tail(skip_list), sum + Head(skip_list))

\* The entries of s whose position, counted from 0, is not in positions.
RECURSIVE Omitting(_, _, _)
Omitting(s, positions, at) ==
    IF s = << >> THEN << >>
    ELSE (IF at \in positions THEN << >> ELSE <<Head(s)>>)
         \o Omitting(Tail(s), positions, at + 1)

\* C17: with a SkipFirst snapshot the skipped positions of the combined list
\* (unused candidates, then used ones, each by descending score) are the
\* running prefix sums of skip_list, and the quarters are the candidates at
\* the other positions in order, quarter_size for each quorum.  Stated for the
\* skip lists that name every position once (no entry after the first is 0)
\* and the inputs where the candidates left suffice for all quarters without
\* a second pass over the list.
C17_SkipFirstPrefixSums ==
    (last.op = "apply_skip_strategy_of_type" /\ last.ok) =>
        LET combined ==
                ValuesDescending(scores_for_quorum_for_masternodes(
                    last.args.unused_at_h_masternodes, last.args.quorum_modifier, FALSE))
                \o ValuesDescending(scores_for_quorum_for_masternodes(
                    last.args.used_at_h_masternodes, last.args.quorum_modifier, FALSE))
            skipped == Range(PrefixSums(last.args.snapshot.skip_list, 0))
            left == Omitting(combined, skipped, 0)
            quarter_size == last.args.quarter_size
        IN  (/\ \A k \in 2..Len(last.args.snapshot.skip_list) :
                    last.args.snapshot.skip_list[k] > 0
             /\ Len(left) >= last.args.quorum_count * quarter_size) =>
                /\ Len(last.applied) = last.args.quorum_count
                /\ \A i \in 1..last.args.quorum_count :
                      last.applied[i]
                          = SubSeq(left, (i - 1) * quarter_size + 1, i * quarter_size)

\* The ProRegTx hashes of the members of the three previous quarters at
\* index i (counted from 1).
PreviousAt(previous_quarters, i) ==
    UNION {ProTxHashes(previous_quarters[q][i]) : q \in 1..3}

\* C18: for every quorum index i the new quarter holds at most quarter_size
\* masternodes, no masternode twice, and no member of the quarters of h-c,
\* h-2c and h-3c at the same index i.
C18_NewQuarterIsFresh ==
    (last.op = "quorum_quarter_members_by_reconstruction_type" /\ last.ok) =>
        /\ Len(last.applied) = last.args.quorum_count
        /\ \A i \in 1..last.args.quorum_count :
            LET quarter == last.applied[i]
                hash(k) == quarter[k].masternode_list_entry.pro_reg_tx_hash
            IN  /\ Len(quarter) <= last.args.quarter_size
                /\ \A j, k \in DOMAIN quarter : hash(j) = hash(k) => j = k
                /\ \A k \in DOMAIN quarter :
                      hash(k) \notin PreviousAt(last.args.previous_quarters, i)

\* C18: the new quarters of both indices are full, and a valid masternode
\* that is a member of a previous quarter at one index is in the new quarter
\* of the other index.
C18_Witness ==
    /\ last.op = "quorum_quarter_members_by_reconstruction_type" /\ last.ok
    /\ last.args.quarter_size = 2
    /\ \A i \in 1..2 : Len(last.applied[i]) = 2
    /\ \E i \in 1..2 :
        \E h \in PreviousAt(last.args.previous_quarters, i) :
            /\ has_valid_masternode(last.args.list, Reverse(h))
            /\ h \in ProTxHashes(last.applied[3 - i])

\* The quarter of index i (counted from 0), empty when the reconstruction
\* returned fewer quarters.
QuarterAt(quarters, i) == IF i < Len(quarters) THEN quarters[i + 1] ELSE << >>

\* The quarters of index i at h-3c, h-2c, h-c and the new quarter, one after
\* the other, for the cycle based at cycle_base_height; << >> when one of the
\* reconstructions fails.
FourQuarters(e, llmq_type, cycle_base_height, i) ==
    LET at(index) == work_block_height_for_index(llmq_type, cycle_base_height, index)
        snapshot(index) == quorum_quarter_members_by_reconstruction_type(
                                e, llmq_type, [kind |-> "Snapshot"], at(index))
    IN  Let1(snapshot(3), LAMBDA q_h_m_3c :
        Let1(snapshot(2), LAMBDA q_h_m_2c :
        Let1(snapshot(1), LAMBDA q_h_m_c :
        IF ~(q_h_m_3c.ok /\ q_h_m_2c.ok /\ q_h_m_c.ok) THEN << >> ELSE
        Let1(quorum_quarter_members_by_reconstruction_type(
                e, llmq_type,
                [kind |-> "New",
                 previous_quarters |->
                    <<q_h_m_c.quarters, q_h_m_2c.quarters, q_h_m_3c.quarters>>], at(0)),
             LAMBDA new :
            IF ~new.ok THEN << >>
            ELSE QuarterAt(q_h_m_3c.quarters, i) \o QuarterAt(q_h_m_2c.quarters, i)
                 \o QuarterAt(q_h_m_c.quarters, i) \o QuarterAt(new.quarters, i)))))

\* C19: when feed_qr_info has validated the commitments of a cycle together
\* and the members of all of them could be derived, the members derived for
\* the commitment with quorum_index i are the quarters of index i at h-3c,
\* h-2c, h-c and the new quarter of index i, in this order, and the status
\* recorded for a commitment of sound structure is the verdict of validating
\* it against this vector, signer bit k standing for the member at position k.
C19_MembersAreTheFourQuarters ==
    (last.op = "feed_qr_info" /\ last.ok /\ last.args.verify_rotated_quorums) =>
        Let1(find_rotated_masternodes_for_quorums(Self, last_commitment_entries),
             LAMBDA together :
            together.ok =>
                \A k \in DOMAIN last_commitment_entries :
                    LET entry == last_commitment_entries[k]
                        quorum == entry.quorum_entry
                    IN  Let1(FourQuarters(Self, quorum.llmq_type,
                                          SubU32(block_heights[quorum.quorum_hash],
                                                 I16AsU32(Unwrap(quorum.quorum_index))),
                                          Unwrap(quorum.quorum_index)),
                             LAMBDA members :
                            /\ together.map[quorum.quorum_hash] = members
                            /\ find_rotated_masternodes_for_quorum(Self, entry).members
                                  = members
                            /\ validate_structure(quorum).ok =>
                                  entry.verified =
                                    update_quorum_status(
                                        entry,
                                        validate(entry, SigningEntries(members,
                                                                       quorum.signers, 1))
                                    ).verified))

\* C19: two commitments of one cycle, of index 0 and 1, were validated
\* together against different vectors of four members and are both verified.
C19_Witness ==
    /\ last.op = "feed_qr_info" /\ last.ok /\ last.args.verify_rotated_quorums
    /\ Len(last_commitment_entries) = 2
    /\ \A k \in 1..2 :
        /\ last_commitment_entries[k].verified = Status("Verified", "")
        /\ last_commitment_entries[k].quorum_entry.quorum_index = Some(k - 1)
        /\ Len(FourQuarters(Self, "LlmqtypeTestDIP0024", 96, k - 1)) = 4
    /\ FourQuarters(Self, "LlmqtypeTestDIP0024", 96, 0)
          # FourQuarters(Self, "LlmqtypeTestDIP0024", 96, 1)

\* The entries of the list a quorum of llmq_type may take on the network:
\* valid, with a confirmed hash, HighPerformance for the platform type.
Eligible(list, llmq_type, net) ==
    {entry \in Range(list.masternodes) :
        /\ entry.masternode_list_entry.is_valid
        /\ IsSome(entry.masternode_list_entry.confirmed_hash)
        /\ llmq_type = platform_type(net) =>
              entry.masternode_list_entry.mn_type = "HighPerformance"}

\* The score of an eligible entry as the comparison reads it: byte-reversed.
ReversedScore(entry, quorum_modifier) ==
    Reverse(create_score(entry.confirmed_hash_hashed_with_pro_reg_tx, quorum_modifier))

\* C20: the members derived for a non-rotated quorum are eligible entries,
\* each once, min(size(llmq_type), number of eligible entries) of them, in
\* descending order of the byte-reversed score, and every member scores
\* higher than every eligible entry that is no member.
C20_HighestScoringEligible ==
    (last.op = "valid_masternodes_for_quorum") =>
        LET llmq_type == last.args.quorum.quorum_entry.llmq_type
            eligible == Eligible(last.args.list, llmq_type, network)
            quorum_modifier ==
                build_llmq_hash(new_quorum_modifier_type(
                    llmq_type, last.args.list.block_hash, 0, EmptyMap, network))
            members == last.applied
        IN  /\ Len(members) = Min({size(llmq_type), Cardinality(eligible)})
            /\ Range(members) \subseteq eligible
            /\ \A j, k \in DOMAIN members :
                  j < k => ReversedScore(members[j], quorum_modifier)
                              > ReversedScore(members[k], quorum_modifier)
            /\ \A member \in Range(members) :
                  \A entry \in eligible \ Range(members) :
                      ReversedScore(member, quorum_modifier)
                          > ReversedScore(entry, quorum_modifier)

\* C20: of four eligible entries three are members; and a quorum of the
\* platform type has the two HighPerformance entries for members while the
\* list holds valid, confirmed Regular entries as well.
C20_Witness ==
    /\ last.op = "valid_masternodes_for_quorum"
    /\ LET llmq_type == last.args.quorum.quorum_entry.llmq_type
       IN  \/ /\ llmq_type # platform_type(network)
              /\ Cardinality(Eligible(last.args.list, llmq_type, network)) = 4
              /\ Len(last.applied) = 3
           \/ /\ llmq_type = platform_type(network)
              /\ DOMAIN last.args.list.masternodes = {Reverse(k) : k \in 1..6}
              /\ Len(last.applied) = 2

\* The quorums the stored lists hold.
StoredQuorums ==
    UNION {UNION {Range(list.quorums[llmq_type]) : llmq_type \in DOMAIN list.quorums} :
              list \in Range(masternode_lists)}

\* The modifier of llmq_type for a work block as the two forms define it.
ModifierAsDefined(llmq_type, work_block_hash, work_block_height) ==
    IF core_v20_is_active_at(network, work_block_height)
    THEN IF HasKey(known_chain_locks, work_block_hash)
         THEN [ok |-> TRUE, err |-> "", form |-> "CoreV20", llmq_type |-> llmq_type,
               block_hash |-> 0, height |-> work_block_height,
               sig |-> known_chain_locks[work_block_hash]]
         ELSE [ok |-> FALSE, err |-> "RequiredChainLockNotPresent", form |-> "",
               llmq_type |-> llmq_type, block_hash |-> 0, height |-> 0, sig |-> 0]
    ELSE [ok |-> TRUE, err |-> "", form |-> "PreCoreV20", llmq_type |-> llmq_type,
          block_hash |-> work_block_hash, height |-> 0, sig |-> 0]

\* C21: for a work block whose list the engine holds, the derivation of
\* members uses the CoreV20 modifier (type, work height, ChainLock signature of
\* the work block) exactly when Core v20 is active at the work height, and the
\* PreCoreV20 modifier (type, work block hash) otherwise; when v20 is active and
\* no ChainLock signature is known for the work block, the derivation fails
\* with RequiredChainLockNotPresent and yields no members, for a non-rotated
\* quorum and for the quarters of a rotated one.
C21_ModifierFormFollowsV20 ==
    /\ \A quorum \in StoredQuorums :
        LET found == masternode_list_and_height_for_block_hash_8_blocks_ago(
                        Self, quorum.quorum_entry.quorum_hash)
        IN  found.ok =>
              Let1(ModifierAsDefined(quorum.quorum_entry.llmq_type, found.list.block_hash,
                                     found.height), LAMBDA modifier :
              Let1(find_non_rotated_masternodes_for_quorum(Self, quorum), LAMBDA derived :
                IF modifier.ok
                THEN /\ derived.ok
                     /\ derived.members =
                          valid_masternodes_for_quorum(found.list, quorum, modifier, network)
                ELSE derived = NoMembers("RequiredChainLockNotPresent")))
    /\ \A work_block_height \in DOMAIN masternode_lists \cap DOMAIN block_hashes :
        LET work_block_hash == block_hashes[work_block_height]
        IN  (core_v20_is_active_at(network, work_block_height)
                /\ ~HasKey(known_chain_locks, work_block_hash)) =>
              quorum_quarter_members_by_reconstruction_type(
                  Self, "LlmqtypeTestDIP0024", [kind |-> "Snapshot"], work_block_height)
                = NoQuarters("RequiredChainLockNotPresent")

\* C21: a verification has marked a quorum invalid for the missing ChainLock
\* signature of its work block, at which v20 is active.
C21_Witness ==
    /\ last.op = "verify_masternode_list_quorums"
    /\ \E quorum \in StoredQuorums :
        LET found == masternode_list_and_height_for_block_hash_8_blocks_ago(
                        Self, quorum.quorum_entry.quorum_hash)
        IN  /\ found.ok
            /\ core_v20_is_active_at(network, found.height)
            /\ ~HasKey(known_chain_locks, found.list.block_hash)
            /\ quorum.verified = Status("Invalid", "RequiredChainLockNotPresent")

\* The cycle base height find_rotated_masternodes_for_quorum takes for a
\* commitment: the height of its block less its quorum_index.
DerivationCycleBase(quorum) ==
    SubU32(block_heights[quorum.quorum_hash], I16AsU32(Unwrap(quorum.quorum_index)))

\* C22: the heights required_cl_sig_heights returns for a QRInfo include, for
\* every rotated commitment of it, the four work heights
\* cycle_base - i*c - 8, i in 0..3, of the cycle base that the derivation of
\* the commitment's members takes.
C22_PrefetchCoversWorkHeights ==
    (last.op = "required_cl_sig_heights" /\ last.ok) =>
        \A quorum \in Range(last.args.qr_info.last_commitment_per_index) :
            \A i \in 0..3 :
                work_block_height_for_index(quorum.llmq_type, DerivationCycleBase(quorum), i)
                    \in last.applied

\* C23: validate_rotation_cycle_quorums returns Ok for a list of rotating
\* commitments if and only if validate_quorum returns Ok for every
\* commitment of the list.
C23_TogetherAsOneAtATime ==
    (last.op = "validate_rotation_cycle_quorums") =>
        (last.ok <=> \A k \in DOMAIN last.args.quorums :
                        validate_quorum(Self, last.args.quorums[k]).ok)

\* The quorums of llmq_type the list holds.
QuorumsOfType(list, llmq_type) ==
    IF HasKey(list.quorums, llmq_type) THEN Range(list.quorums[llmq_type]) ELSE {}

\* The ordering hash of a quorum as the byte-reversed comparison reads it.
ReversedOrderingHash(entry, request_id) ==
    Reverse(ordering_hash_for_request_id(entry, request_id))

\* C24: quorum_entry_for_lock_request_id returns None exactly when the list
\* has no quorum of the type, and otherwise the quorum of the type whose
\* ordering hash for the request id is the smallest under byte-reversed
\* comparison.
C24_SmallestOrderingHash ==
    (last.op = "quorum_entry_for_lock_request_id") =>
        LET candidates == QuorumsOfType(last.args.list, last.args.llmq_type)
        IN  IF candidates = {} THEN last.applied = None
            ELSE /\ IsSome(last.applied)
                 /\ Unwrap(last.applied) \in candidates
                 /\ \A entry \in candidates :
                       ReversedOrderingHash(Unwrap(last.applied), last.args.request_id)
                          <= ReversedOrderingHash(entry, last.args.request_id)

\* C24: four quorums of the type, and the pick is neither the first nor the
\* last of them in the order of the map.
C24_Witness ==
    /\ last.op = "quorum_entry_for_lock_request_id"
    /\ Cardinality(QuorumsOfType(last.args.list, last.args.llmq_type)) = 4
    /\ IsSome(last.applied)
    /\ Unwrap(last.applied).quorum_entry.quorum_hash \in {2, 3}

\* C25: ordered_quorums_for_is_lock returns every quorum of the type once, in
\* descending order of the ordering hash under byte-reversed comparison, so
\* that the quorum quorum_entry_for_lock_request_id picks is the last one.
C25_DescendingByReversedHash ==
    (last.op = "ordered_quorums_for_is_lock") =>
        LET candidates == QuorumsOfType(last.args.list, last.args.llmq_type)
            ordered == last.applied
        IN  /\ Range(ordered) = candidates
            /\ Len(ordered) = Cardinality(candidates)
            /\ \A j, k \in DOMAIN ordered :
                  j < k => ReversedOrderingHash(ordered[j], last.args.request_id)
                              > ReversedOrderingHash(ordered[k], last.args.request_id)
            /\ ordered # << >> =>
                  Some(ordered[Len(ordered)])
                      = quorum_entry_for_lock_request_id(
                            last.args.list, last.args.request_id, last.args.llmq_type)

\* The root of a non-empty level: adjacent pairs hashed level by level, an
\* unpaired last node paired with itself.
RECURSIVE RootOfLevel(_)
RootOfLevel(level) ==
    IF Len(level) = 1 THEN level[1]
    ELSE RootOfLevel([i \in 1..((Len(level) + 1) \div 2) |->
                         MerkleNode(level[2 * i - 1],
                                    level[IF 2 * i <= Len(level) THEN 2 * i ELSE 2 * i - 1])])

\* C26: dash_merkle_root, dash_merkle_root_inline and merkle_root_from_hashes
\* return the same for every sequence of leaves: None for no leaf, the leaf
\* for one leaf, and otherwise the root of hashing adjacent pairs level by
\* level with an unpaired last node paired with itself.
C26_MerkleRootsAgree ==
    (last.op \in {"dash_merkle_root", "dash_merkle_root_inline", "merkle_root_from_hashes"}) =>
        last.applied = (IF last.args.hashes = << >> THEN None
                        ELSE Some(RootOfLevel(last.args.hashes)))

\* C26: the in-place form has computed the root of five leaves, whose first
\* and second levels both end in an unpaired node.
C26_Witness ==
    /\ last.op = "dash_merkle_root_inline"
    /\ Len(last.args.hashes) = 5
    /\ last.applied = Some(RootOfLevel(last.args.hashes))
    /\ last.applied # Some(merkle_root_r_unpaired_as_is(last.args.hashes))

\* The entry hashes of the masternodes of a list in ascending order of key,
\* where key gives each ProRegTx hash the number it is ordered by.
LeavesOrderedBy(list, key(_)) ==
    LET hashes == {entry.masternode_list_entry.pro_reg_tx_hash :
                      entry \in Range(list.masternodes)}
        sorted == SortedSeq({key(hash) : hash \in hashes})
    IN  [i \in DOMAIN sorted |->
            (CHOOSE entry \in Range(list.masternodes) :
                key(entry.masternode_list_entry.pro_reg_tx_hash) = sorted[i]).entry_hash]

\* C27 as stated: the leaves of the masternode merkle root are the entry
\* hashes of the masternodes of the list, one each, in ascending order of the
\* byte-reversed pro_reg_tx_hash, the order in which the masternodes map
\* iterates.
C27_LeavesInMapOrder ==
    (last.op = "hashes_for_merkle_root" /\ IsSome(last.applied)) =>
        /\ Unwrap(last.applied) = LeavesOrderedBy(last.args.list, LAMBDA hash : Reverse(hash))
        /\ Unwrap(last.applied) = [i \in 1..Len(Values(last.args.list.masternodes)) |->
                                      Values(last.args.list.masternodes)[i].entry_hash]

\* C27 amended: the leaves of the masternode merkle root are the entry hashes
\* of the masternodes of the list, one each, in ascending order of the
\* pro_reg_tx_hash itself, which is the byte reversal of the keys of the map.
C27_LeavesInHashOrder ==
    (last.op = "hashes_for_merkle_root" /\ last.args.block_height # -1) =>
        /\ IsSome(last.applied)
        /\ Len(Unwrap(last.applied)) = Cardinality(DOMAIN last.args.list.masternodes)
        /\ Unwrap(last.applied) = LeavesOrderedBy(last.args.list, LAMBDA hash : hash)

\* C27: the leaves of a list of at least three masternodes, which the map
\* iterates in another order.
C27_Witness ==
    /\ last.op = "hashes_for_merkle_root"
    /\ IsSome(last.applied)
    /\ Len(Unwrap(last.applied)) >= 3
    /\ Unwrap(last.applied) # [i \in 1..Len(Values(last.args.list.masternodes)) |->
                                  Values(last.args.list.masternodes)[i].entry_hash]

\* Whether a commitment carries its quorum_index exactly when its version is
\* 2 or 4.
IndexFollowsVersion(entry) ==
    IsSome(entry.quorum_index) <=> (entry.version = 2 \/ entry.version = 4)

\* C28: the encoding of a QuorumEntry round-trips: the bytes an entry is
\* encoded to decode to that entry, for every version and whether or not it
\* has a quorum_index, and a byte string that decodes successfully is what
\* the decoded entry is encoded to.
C28_EntryRoundTrips ==
    /\ last.op = "QuorumEntry::consensus_decode" =>
          /\ last.applied.ok
          /\ Unwrap(last.applied.value) = last.args.entry
          /\ last.applied.next = Len(last.args.bytes) + 1
    /\ (last.op = "deserialize" /\ last.ok
            /\ last.applied.next = Len(last.args.bytes) + 1) =>
          last.applied.bytes = last.args.bytes

\* C28: an entry of version 2 without a quorum_index has been encoded, and
\* the bytes did not decode.
C28_Witness ==
    /\ last.op = "QuorumEntry::consensus_decode"
    /\ last.args.entry.version = 2
    /\ last.args.entry.quorum_index = None
    /\ ~last.applied.ok

\* C29: size() of a QuorumEntry and of a QuorumCommitmentPayload is the
\* number of bytes consensus_encode writes for it, and the size of a payload
\* is 6 more than the size of its entry, for every version and whether or
\* not the entry has a quorum_index.
C29_SizeIsBytesWritten ==
    /\ last.op = "QuorumEntry::size" =>
          last.applied = Len(QuorumEntry_consensus_encode(last.args.entry))
    /\ last.op = "QuorumCommitmentPayload::size" =>
          /\ last.applied = Len(QuorumCommitmentPayload_consensus_encode(last.args.payload))
          /\ last.applied = 6 + QuorumEntry_size(last.args.payload.finalization_commitment)

\* C29: the size of a payload whose entry has version 4 and no quorum_index
\* has been taken, and it is two more than the bytes written.
C29_Witness ==
    /\ last.op = "QuorumCommitmentPayload::size"
    /\ last.args.payload.finalization_commitment.version = 4
    /\ last.args.payload.finalization_commitment.quorum_index = None
    /\ last.applied = Len(QuorumCommitmentPayload_consensus_encode(last.args.payload)) + 2

\* The layout of a snapshot on the wire: skip_list_mode as four bytes
\* little-endian, the compact size of the number of active-member bits, the
\* bits, and the skip list as a vector of u32.
SnapshotLayout(snapshot) ==
    EncodeLE(ModeIndex(snapshot.skip_list_mode), 4)
    \o write_compact_size(Len(snapshot.active_quorum_members))
    \o write_fixed_bitset(snapshot.active_quorum_members, Len(snapshot.active_quorum_members))
    \o write_compact_size(Len(snapshot.skip_list))
    \o EncodeVecU32(snapshot.skip_list)

\* C30: a QuorumSnapshot is encoded as skip_list_mode in four bytes
\* little-endian, compact_size(n), the n-bit active-member bitset and the
\* skip_list vector, and the bytes a snapshot is encoded to decode to that
\* snapshot.
C30_SnapshotLayoutAndRoundTrip ==
    /\ last.op = "QuorumSnapshot::consensus_encode" =>
          last.applied = SnapshotLayout(last.args.snapshot)
    /\ last.op = "QuorumSnapshot::consensus_decode" =>
          /\ last.applied.ok
          /\ Unwrap(last.applied.value) = last.args.snapshot
          /\ last.applied.next = Len(last.args.bytes) + 1

\* C30: a snapshot of four active-member bits has been encoded without the
\* compact size of their number, and the bytes did not decode to it.
C30_Witness ==
    /\ last.op = "QuorumSnapshot::consensus_decode"
    /\ Len(last.args.snapshot.active_quorum_members) = 4
    /\ Len(last.args.bytes) = Len(SnapshotLayout(last.args.snapshot)) - 1
    /\ ~(last.applied.ok /\ Unwrap(last.applied.value) = last.args.snapshot)

\* The bytes of an mn_type as the specification lays them out: a tag of two
\* bytes, 0 for Regular and 1 for HighPerformance, the latter followed by
\* the port and the node id.
TypeLayout(mn_type) ==
    IF mn_type.kind = "Regular" THEN <<0, 0>>
    ELSE <<1, 0>> \o EncodeLE(mn_type.platform_http_port, 2) \o mn_type.platform_node_id

\* C31: in both codecs of MasternodeListEntry the bytes after the 153 bytes
\* of the other fields are the mn_type with its two-byte tag when version
\* >= 2 and nothing otherwise, and the bytes an entry is encoded to decode
\* to that entry whenever its mn_type is Regular or its version is 2 or
\* more.
C31_MnTypeIffVersion2 ==
    /\ last.op \in {"masternode_list_entry::consensus_encode", "entry::consensus_encode"} =>
          /\ last.applied.ok
          /\ SubSeq(last.applied.bytes, 154, Len(last.applied.bytes))
                = (IF last.args.entry.version >= 2
                   THEN TypeLayout(last.args.entry.mn_type) ELSE << >>)
    /\ (/\ last.op \in {"masternode_list_entry::consensus_decode", "entry::consensus_decode"}
        /\ (last.args.entry.version >= 2 \/ last.args.entry.mn_type = RegularType)) =>
          /\ last.applied.ok
          /\ Unwrap(last.applied.value) = last.args.entry
          /\ last.applied.next = Len(last.args.bytes) + 1

\* C31: sml::entry has encoded a Regular entry of version 2 with a tag of
\* one byte, and its decoder, which reads two, has failed on the bytes.
C31_Witness ==
    /\ last.op = "entry::consensus_decode"
    /\ last.args.entry.version = 2
    /\ last.args.entry.mn_type = RegularType
    /\ Len(last.args.bytes) = 154
    /\ ~last.applied.ok

\* C32: the commitment hash depends only on llmq_type, quorum_hash,
\* valid_members, quorum_public_key and quorum_vvec_hash: two commitments
\* that agree in these five fields, whatever their signers, version,
\* quorum_index, threshold_sig and all_commitment_aggregated_signature, have
\* the same commitment hash.
C32_HashOfFiveFields ==
    (/\ last.op = "calculate_commitment_hash"
     /\ last.args.first.llmq_type = last.args.second.llmq_type
     /\ last.args.first.quorum_hash = last.args.second.quorum_hash
     /\ last.args.first.valid_members = last.args.second.valid_members
     /\ last.args.first.quorum_public_key = last.args.second.quorum_public_key
     /\ last.args.first.quorum_vvec_hash = last.args.second.quorum_vvec_hash) =>
        last.applied[1] = last.applied[2]

\* C32: two commitments that differ in signers, version, quorum_index and
\* both signatures have been hashed to the same commitment hash.
C32_Witness ==
    /\ last.op = "calculate_commitment_hash"
    /\ last.args.first.signers # last.args.second.signers
    /\ last.args.first.version # last.args.second.version
    /\ last.args.first.quorum_index # last.args.second.quorum_index
    /\ last.args.first.threshold_sig # last.args.second.threshold_sig
    /\ last.args.first.all_commitment_aggregated_signature
          # last.args.second.all_commitment_aggregated_signature
    /\ last.applied[1] = last.applied[2]

\* C33: across every engine operation the key sets of known_chain_locks and
\* known_snapshots only grow: no operation, a failing feed_qr_info or
\* apply_diff included, removes a ChainLock signature or a snapshot.
C33_CachesOnlyGrow ==
    [][/\ DOMAIN known_chain_locks \subseteq DOMAIN known_chain_locks'
       /\ DOMAIN known_snapshots \subseteq DOMAIN known_snapshots'
    ]_vars

\* C33: a feed_qr_info has failed on an engine that holds two ChainLock
\* signatures and a snapshot.
C33_Witness ==
    /\ last.op = "feed_qr_info" /\ ~last.ok
    /\ Cardinality(DOMAIN known_chain_locks) >= 2
    /\ known_snapshots # EmptyMap

\* C34: apply_diff is atomic on failure: whenever it returns an error,
\* block_hashes, block_heights, masternode_lists, known_chain_locks,
\* known_snapshots and last_commitment_entries are as they were before the
\* call.
C34_ApplyDiffAtomicOnFailure ==
    [][(last'.op = "apply_diff" /\ ~last'.ok /\ ops' = ops + 1) =>
          UNCHANGED <<block_hashes, block_heights, masternode_lists, known_chain_locks,
                      known_snapshots, last_commitment_entries>>
    ]_vars

\* C34: an apply_diff that was given an end height has failed for a base
\* other than the base list's block, on an engine that holds lists.
C34_Witness ==
    /\ last.op = "apply_diff" /\ ~last.ok
    /\ last.err = "BaseBlockHashMismatch"
    /\ IsSome(last.args.diff_end_height)
    /\ masternode_lists # EmptyMap
    /\ ~HasKey(block_heights, last.args.diff.block_hash)

\* C35: masternode_list_for_block_hash(b) never returns the list of another
\* block: in every reachable state of the engine, whenever it returns
\* Some(L) for a block hash b, L.block_hash = b.
C35_ListIsOfTheBlockAsked ==
    \A block_hash \in DOMAIN block_heights :
        IsSome(masternode_list_for_block_hash(Self, block_hash)) =>
            Unwrap(masternode_list_for_block_hash(Self, block_hash)).block_hash = block_hash

\* C35: a block hash has been fed at the height that holds the list of
\* another block, and the lookup of the hash fed returns that list.
C35_Witness ==
    /\ last.op = "feed_block_height"
    /\ IsSome(masternode_list_for_block_hash(Self, last.args.block_hash))
    /\ Unwrap(masternode_list_for_block_hash(Self, last.args.block_hash)).block_hash
          # last.args.block_hash

\* No masternode is in the quarters of two quorum indices.
QuartersDisjoint(quarters) ==
    \A i \in DOMAIN quarters : \A j \in DOMAIN quarters :
        i /= j => ProTxHashes(quarters[i]) \cap ProTxHashes(quarters[j]) = {}

\* C36: in every snapshot mode and for the new quarter, a reconstruction that
\* returns gives as many quarters as there are quorum indices, and no
\* masternode is in the quarters of two quorum indices.
C36_QuartersDisjointAndCounted ==
    (last.op = "apply_skip_strategy_of_type" /\ last.ok)
        => /\ Len(last.applied) = last.args.quorum_count
           /\ QuartersDisjoint(last.applied)

\* A reconstruction returned quarters for two quorum indices, one of them with
\* a member.
C36_Witness ==
    /\ last.op = "apply_skip_strategy_of_type" /\ last.ok
    /\ last.args.quorum_count = 2
    /\ \E i \in DOMAIN last.applied : last.applied[i] /= << >>

\* C38: the reconstruction returns normally for every mode, skip list, quarter
\* size and candidate list, and for the new quarter it returns one quarter
\* for each quorum index, none larger than the quarter size.
C38_ReconstructionReturns ==
    last.op = "apply_skip_strategy_of_type"
        => /\ last.ok
           /\ last.args.skip_type.kind = "New"
                => /\ Len(last.applied) = last.args.quorum_count
                   /\ \A i \in DOMAIN last.applied :
                        Len(last.applied[i]) <= last.args.quarter_size

\* A reconstruction did not return: no candidate in SkipFirst, or quarters of
\* size zero in NoSkipping.
C38_Witness ==
    /\ last.op = "apply_skip_strategy_of_type" /\ ~last.ok
    /\ last.args.skip_type.kind = "Snapshot"
    /\ \/ /\ last.args.skip_type.snapshot.skip_list_mode = "SkipFirst"
          /\ last.args.unused_at_h_masternodes = << >>
          /\ last.args.used_at_h_masternodes = << >>
       \/ /\ last.args.skip_type.snapshot.skip_list_mode = "NoSkipping"
          /\ last.args.quarter_size = 0

\* C37: the work heights of a rotated commitment are computed without
\* wrap-around or panic: cycle_base = quorum_height - quorum_index in u32 and
\* none of the heights cycle_base - i*c - 8, i = 0..3, exceeds the height of
\* the quorum block, for every quorum_index and every quorum height; nor does
\* a height required_cl_sig_heights names for the commitment.
C37_WorkHeightsDoNotWrap ==
    last.op = "rotated_work_heights"
        => LET quorum_height == block_heights[last.args.quorum.quorum_hash]
           IN  /\ last.ok
               /\ ~last.applied.overflowed
               /\ \A k \in 1..4 : ~LessU32(quorum_height, last.applied.heights[k])
               /\ \A height \in last.applied.required : ~LessU32(quorum_height, height)

\* The work heights of a commitment with a negative quorum_index were
\* computed by the wrapping build.
C37_Witness ==
    /\ last.op = "rotated_work_heights" /\ last.ok
    /\ Unwrap(last.args.quorum.quorum_index) < 0
    /\ last.applied.overflowed

\* The status the engine reports for a commitment validated in a batch of its
\* own.
StatusAlone(quorum) ==
    validate_rotation_cycle_quorums_validation_statuses(Self, <<quorum>>)
        .statuses[quorum.quorum_entry.quorum_hash]

\* C39: in the batch status computation the status of a commitment depends
\* only on that commitment and the engine's data for its own cycle: a
\* commitment of the batch whose members cannot be derived does not change the
\* status reported for a commitment of another quorum block, which is the
\* status reported for it alone.
C39_StatusIsOfTheCommitmentAlone ==
    last.op = "validate_rotation_cycle_quorums_validation_statuses"
        => \A k \in DOMAIN last.args.quorums :
            LET quorum == last.args.quorums[k]
                hash == quorum.quorum_entry.quorum_hash
            IN  (\A j \in DOMAIN last.args.quorums :
                    j /= k => last.args.quorums[j].quorum_entry.quorum_hash /= hash)
                    => last.applied[hash] = StatusAlone(quorum)

\* A batch of a commitment that is verified alone and a commitment of another
\* block whose members cannot be derived.
C39_Witness ==
    /\ last.op = "validate_rotation_cycle_quorums_validation_statuses"
    /\ Len(last.args.quorums) = 2
    /\ last.args.quorums[1].quorum_entry.quorum_hash
         /= last.args.quorums[2].quorum_entry.quorum_hash
    /\ \E k \in 1..2 :
        /\ StatusAlone(last.args.quorums[k]).tag = "Verified"
        /\ last.args.quorums[3 - k] \in UnderivableCommitments

\* C40: verify_masternode_list_quorums changes nothing except the verified
\* status of the non-excluded quorums of the list at the given height: the
\* quorums of excluded types, the rotating quorums whose hash no entry of
\* last_commitment_entries carries, the masternode entries, every other
\* list, the height and hash maps, the ChainLock and snapshot caches and the
\* last commitment entries are as they were; with no list at that height it
\* returns VerifyingMasternodeListNotPresent and the whole engine is as it was.
C40_VerifyChangesStatusesOnly ==
    [][(last'.op = "verify_masternode_list_quorums" /\ ops' = ops + 1) =>
        LET height == last'.args.block_height
            exclude == last'.args.exclude_quorum_types
        IN  /\ UNCHANGED <<block_hashes, block_heights, known_chain_locks, known_snapshots,
                           last_commitment_entries, network>>
            /\ DOMAIN masternode_lists' = DOMAIN masternode_lists
            /\ \A other \in DOMAIN masternode_lists :
                    other /= height => masternode_lists'[other] = masternode_lists[other]
            /\ last'.ok = HasKey(masternode_lists, height)
            /\ ~last'.ok => /\ last'.err = "VerifyingMasternodeListNotPresent"
                            /\ UNCHANGED engine_vars
            /\ last'.ok =>
                LET before == masternode_lists[height]
                    after == masternode_lists'[height]
                IN  /\ SameButStatuses(before, after)
                    /\ after.masternodes = before.masternodes
                    /\ \A quorum_type \in DOMAIN before.quorums :
                        /\ quorum_type \in exclude =>
                                after.quorums[quorum_type] = before.quorums[quorum_type]
                        /\ is_rotating_quorum_type(quorum_type) =>
                            \A quorum_hash \in DOMAIN before.quorums[quorum_type] :
                                (\A k \in DOMAIN last_commitment_entries :
                                    last_commitment_entries[k].quorum_entry.quorum_hash
                                        /= quorum_hash)
                                => after.quorums[quorum_type][quorum_hash]
                                     = before.quorums[quorum_type][quorum_hash]
    ]_vars

\* A verification that excluded a type has written a status into the list
\* at its height, which holds quorums of the excluded type and a rotating
\* quorum that no last commitment entry matches, while the engine holds
\* another list, a ChainLock and a snapshot.
C40_Witness ==
    /\ last.op = "verify_masternode_list_quorums" /\ last.ok
    /\ last.args.exclude_quorum_types /= {}
    /\ \E other \in DOMAIN masternode_lists : other /= last.args.block_height
    /\ known_snapshots /= EmptyMap
    /\ LET quorums == masternode_lists[last.args.block_height].quorums
       IN  /\ \E quorum_type \in DOMAIN quorums :
                /\ quorum_type \in last.args.exclude_quorum_types
                /\ quorums[quorum_type] /= EmptyMap
           /\ \E quorum_type \in DOMAIN quorums :
                /\ quorum_type \notin last.args.exclude_quorum_types
                /\ \E quorum_hash \in DOMAIN quorums[quorum_type] :
                      quorums[quorum_type][quorum_hash].verified
                        /= NotMarkedForVerification
           /\ \E quorum_type \in DOMAIN quorums :
                /\ is_rotating_quorum_type(quorum_type)
                /\ \E quorum_hash \in DOMAIN quorums[quorum_type] :
                      \A k \in DOMAIN last_commitment_entries :
                          last_commitment_entries[k].quorum_entry.quorum_hash /= quorum_hash

====
